---- MODULE Spec2Model ----
(***************************************************************************)
(* Verification model of the destaquesgovbr data-platform: the relational  *)
(* news store (PostgresManager), the embedding pipeline                    *)
(* (EmbeddingGenerator), the index synchronisation (TypesenseSyncManager)  *)
(* and the dual-write StorageAdapter.                                      *)
(***************************************************************************)
EXTENDS Integers, Sequences, FiniteSets, TLC

(***************************************************************************)
(* Bounds of the model.                                                    *)
(***************************************************************************)
NumKeys == 3        \* distinct natural keys (unique_id)
NumTitles == 2      \* distinct values of a content column
NumDays == 2        \* publish days; day 1 is before 2025-01-01
MaxTime == 2        \* clock values 0..MaxTime
MaxList == 3        \* longest list handed to PostgresManager.insert
MaxBatch == 2       \* largest batch_size handed to a pipeline run
MaxLimit == 2       \* largest max_records handed to a pipeline run (0: none)
MaxConn == 2
MaxDim == 3
NumJobKeys == 4
MaxJobLimit == 3
MaxItems == 5        \* connections of the pool (max_connections)
MaxFrame == 2       \* most rows of a payload handed to the StorageAdapter
NumVectorKeys == 2  \* natural keys of the rows whose vector columns are written

Keys == 1..NumKeys
Titles == 1..NumTitles
Days == 1..NumDays
Times == 0..MaxTime

(***************************************************************************)
(* Program constants.                                                      *)
(***************************************************************************)
\* psycopg2.extras.execute_values is called without page_size, so it sends
\* one statement per page of 100 rows; the model scales the page to 2 rows
\* so that a multi-page insert happens within NumKeys.
PageSize == 2
\* first publish day accepted by the sync query (published_at >= '2025-01-01')
Day2025 == 2
\* EmbeddingGenerator.EMBEDDING_DIM
EMBEDDING_DIM == 768
\* the width of a response of the wrong dimension
WrongDim == EMBEDDING_DIM - 1

\* SQL NULL / Python None; a present value v is the one-element tuple <<v>>
NULL == <<>>
Some(v) == <<v>>
Val(x) == x[1]

Min(a, b) == IF a <= b THEN a ELSE b

VARIABLES
    news,       \* the news table: a set of rows
    now,        \* the clock
    call,       \* the PostgresManager call last made and what it returned
    emb,        \* the generate_embeddings run
    adapter,    \* the StorageAdapter and the call last made on it
    sync_log,   \* the sync_log table
    index,      \* the documents of the search collection
    sync,       \* the sync_embeddings run
    pg,         \* the PostgresManager: its connection pool and its cache flag
    iter,       \* the iter_news_for_typesense generator
    prep,       \* the latest call of _prepare_typesense_document
    reader,     \* the read side of the StorageAdapter
    conv,       \* the latest call of _convert_to_news_insert
    job,        \* the sync_to_typesense job
    pib,        \* the latest call of process_in_batches
    refs        \* the adapter's manager and the latest lookup in its cache

syncvars == <<sync_log, index, sync>>
jobvars == <<job, pib, refs>>
restvars == <<pg, iter, prep, reader, conv, jobvars>>

(***************************************************************************)
(* Table news.  unique_id carries a unique index, which is what            *)
(* ON CONFLICT (unique_id) arbitrates on.                                  *)
(***************************************************************************)
KeysOf(store) == {r.unique_id : r \in store}
Has(store, k) == \E r \in store : r.unique_id = k
Get(store, k) == CHOOSE r \in store : r.unique_id = k

(***************************************************************************)
(* PostgresManager: the connection pool.                                   *)
(***************************************************************************)
\* pool.getconn() raises PoolError when every connection is checked out
Exhausted(p) == p.checked_out >= MaxConn

\* "finally: cursor.close(); self.put_connection(conn)" after
\* get_connection: when conn.cursor() raised, cursor is unbound, so
\* cursor.close() raises and put_connection is not reached
AfterFinally(p, fail) ==
    IF fail = "cursor" THEN [p EXCEPT !.checked_out = @ + 1] ELSE p

(***************************************************************************)
(* PostgresManager.insert                                                  *)
(***************************************************************************)
\* a NewsInsert payload with its agency reference: the agency's id and the
\* cached agency key
NewsInsertOf(k, t, d, agency_id, agency_key) ==
    [unique_id |-> k, title |-> t, published_at |-> d,
     agency_id |-> agency_id, agency_key |-> agency_key]

\* a NewsInsert payload of the agency "mec"
NewsInsert(k, t, d) == NewsInsertOf(k, t, d, 1, "mec")

\* the row a fresh INSERT creates: the vector columns take their NULL default
NewRow(n) ==
    [unique_id |-> n.unique_id, title |-> n.title, published_at |-> n.published_at,
     agency_id |-> n.agency_id, agency_key |-> n.agency_key,
     content_embedding |-> NULL, embedding_generated_at |-> NULL]

\* the seen_ids loop: keep the first occurrence of every unique_id
RECURSIVE DedupFrom(_, _)
DedupFrom(recs, seen) ==
    IF recs = <<>> THEN <<>>
    ELSE IF Head(recs).unique_id \in seen
         THEN DedupFrom(Tail(recs), seen)
         ELSE <<Head(recs)>> \o DedupFrom(Tail(recs), seen \cup {Head(recs).unique_id})

\* a de-duplication that lets the last occurrence win
RECURSIVE Reverse(_)
Reverse(q) == IF q = <<>> THEN <<>> ELSE Reverse(Tail(q)) \o <<Head(q)>>
DedupKeepLast(recs) == Reverse(DedupFrom(Reverse(recs), {}))

Dedup(recs) == DedupFrom(recs, {})

\* one VALUES row of INSERT ... ON CONFLICT (unique_id): DO NOTHING, or
\* DO UPDATE SET every listed column but unique_id, agency_id, published_at
\* (the vector columns are not among the listed columns; agency_key is)
UpsertRow(store, n, allow_update) ==
    IF ~Has(store, n.unique_id)
    THEN store \cup {NewRow(n)}
    ELSE IF allow_update
         THEN {IF r.unique_id = n.unique_id
               THEN [r EXCEPT !.title = n.title, !.agency_key = n.agency_key]
               ELSE r : r \in store}
         ELSE store

\* rows the statement reports as affected by one VALUES row
Affected(store, n, allow_update) ==
    IF ~Has(store, n.unique_id) \/ allow_update THEN 1 ELSE 0

\* one statement (one page of execute_values): the table after it and its
\* cursor.rowcount
RECURSIVE ExecPage(_, _, _, _)
ExecPage(store, page, allow_update, count) ==
    IF page = <<>> THEN [store |-> store, rowcount |-> count]
    ELSE ExecPage(UpsertRow(store, Head(page), allow_update), Tail(page),
                  allow_update, count + Affected(store, Head(page), allow_update))

\* execute_values: one statement per page; cursor.rowcount is the rowcount
\* of the statement executed last
RECURSIVE ExecuteValues(_, _, _)
ExecuteValues(store, recs, allow_update) ==
    IF Len(recs) <= PageSize
    THEN ExecPage(store, recs, allow_update, 0)
    ELSE ExecuteValues(
            ExecPage(store, SubSeq(recs, 1, PageSize), allow_update, 0).store,
            SubSeq(recs, PageSize + 1, Len(recs)), allow_update)

\* what `call` records of a PostgresManager call
CallRec(op, recs, allow_update, pre, raised, ret, repeat) ==
    [op |-> op, news |-> recs, allow_update |-> allow_update, pre |-> pre,
     raised |-> raised, ret |-> ret, repeat |-> repeat]

\* insert(news, allow_update): ValueError on an empty list; db_ok = FALSE is
\* a database error, which rolls the transaction back and re-raises.  The
\* table after the call, whether it raised, and the count it returned.
InsertOutcome(store, recs, allow_update, db_ok) ==
    IF recs = <<>> \/ ~db_ok
    THEN [store |-> store, raised |-> TRUE, ret |-> 0]
    ELSE LET r == ExecuteValues(store, Dedup(recs), allow_update) IN
         [store |-> r.store, raised |-> FALSE, ret |-> r.rowcount]

\* insert with its connection: fail is the step of the try block that
\* raises ("none" when none does)
PgInsertAt(recs, allow_update, fail) ==
    LET got == recs # <<>> /\ ~Exhausted(pg)
        out == InsertOutcome(news, recs, allow_update, got /\ fail = "none")
    IN
    /\ news' = out.store
    /\ pg' = IF got THEN AfterFinally(pg, fail) ELSE pg
    /\ call' = CallRec("insert", recs, allow_update, news, out.raised, out.ret,
                       /\ ~out.raised
                       /\ call.op = "insert"
                       /\ ~call.raised
                       /\ call.news = recs
                       /\ ~call.allow_update
                       /\ ~allow_update)
    /\ UNCHANGED <<now, emb, adapter, syncvars, iter, prep, reader, conv, jobvars>>

PgInsert(recs, allow_update, db_ok) ==
    LET out == InsertOutcome(news, recs, allow_update, db_ok) IN
    /\ news' = out.store
    /\ call' = CallRec("insert", recs, allow_update, news, out.raised, out.ret,
                       /\ ~out.raised
                       /\ call.op = "insert"
                       /\ ~call.raised
                       /\ call.news = recs
                       /\ ~call.allow_update
                       /\ ~allow_update)
    /\ UNCHANGED <<now, emb, adapter, syncvars, restvars>>

(***************************************************************************)
(* PostgresManager.update                                                  *)
(***************************************************************************)
\* UPDATE news SET <every key of updates> = %s: the caller's field map is
\* written column by column, whatever columns it names
ApplyUpdates(row, updates) ==
    [c \in DOMAIN row |-> IF c \in DOMAIN updates THEN updates[c] ELSE row[c]]

\* update(unique_id, updates): ValueError on an empty map; db_ok = FALSE is
\* a database error (rollback, re-raise); returns cursor.rowcount > 0
UpdateOutcome(store, unique_id, updates, db_ok) ==
    IF DOMAIN updates = {} \/ ~db_ok
    THEN [store |-> store, raised |-> TRUE, ret |-> FALSE]
    ELSE [store |-> {IF r.unique_id = unique_id THEN ApplyUpdates(r, updates) ELSE r :
                        r \in store},
          raised |-> FALSE,
          ret |-> Has(store, unique_id)]

\* update with its connection
PgUpdateAt(unique_id, updates, fail) ==
    LET got == DOMAIN updates # {} /\ ~Exhausted(pg)
        out == UpdateOutcome(news, unique_id, updates, got /\ fail = "none")
    IN
    /\ news' = out.store
    /\ pg' = IF got THEN AfterFinally(pg, fail) ELSE pg
    /\ call' = CallRec("update", <<>>, FALSE, news, out.raised,
                       IF out.ret THEN 1 ELSE 0, FALSE)
    /\ UNCHANGED <<now, emb, adapter, syncvars, iter, prep, reader, conv, jobvars>>

\* get, count: get_connection, a SELECT in try, the finally clause
PgRead(op, fail) ==
    /\ pg' = IF Exhausted(pg) THEN pg ELSE AfterFinally(pg, fail)
    /\ call' = CallRec(op, <<>>, FALSE, news, Exhausted(pg) \/ fail # "none",
                       IF Exhausted(pg) \/ fail # "none" THEN 0 ELSE Cardinality(news),
                       FALSE)
    /\ UNCHANGED <<news, now, emb, adapter, syncvars, iter, prep, reader, conv, jobvars>>

\* the adapter's _postgres_manager ("none", "given" to __init__, or its
\* "own"), the latest lookup of a key in the cache (op, whether
\* _cache_loaded was set when the mapping was read, whether the key was
\* found), and whether the latest load_cache ran a SELECT
RefsIdle ==
    [manager |-> "none", op |-> "none", loaded |-> FALSE, found |-> FALSE,
     selected |-> FALSE]

\* PostgresManager(): a pool with nothing checked out, an empty cache
NewManager == [checked_out |-> 0, cache_loaded |-> FALSE]

\* load_cache: returns at once when the cache is loaded; otherwise
\* get_connection, two SELECTs in try, the finally clause.  The manager
\* after the call, whether the call raises, whether it ran a SELECT
LoadedCache(p, fail) ==
    IF p.cache_loaded \/ Exhausted(p) THEN p
    ELSE [AfterFinally(p, fail) EXCEPT !.cache_loaded = (fail = "none")]

LoadRaises(p, fail) == ~p.cache_loaded /\ (Exhausted(p) \/ fail # "none")

LoadSelects(p, fail) == ~p.cache_loaded /\ ~Exhausted(p) /\ fail # "cursor"

LoadCache(fail) ==
    /\ pg' = LoadedCache(pg, fail)
    /\ call' = CallRec("load_cache", <<>>, FALSE, news, LoadRaises(pg, fail), 0, FALSE)
    /\ refs' = [refs EXCEPT !.selected = LoadSelects(pg, fail)]
    /\ UNCHANGED <<news, now, emb, adapter, syncvars, iter, prep, reader, conv, job, pib>>

\* get_agency_by_key, get_theme_by_code: "if not self._cache_loaded:
\* self.load_cache()", then the mapping's get; an exception of load_cache
\* leaves the method before the mapping is read
GetByKey(op, known, key, fail) ==
    /\ pg' = LoadedCache(pg, fail)
    /\ refs' = IF LoadRaises(pg, fail)
               THEN [refs EXCEPT !.op = "none", !.selected = LoadSelects(pg, fail)]
               ELSE [refs EXCEPT !.op = op, !.loaded = pg'.cache_loaded,
                                 !.found = key \in known,
                                 !.selected = LoadSelects(pg, fail)]
    /\ UNCHANGED <<news, now, call, emb, adapter, syncvars, iter, prep, reader, conv, job, pib>>

PgUpdate(unique_id, updates, db_ok) ==
    LET out == UpdateOutcome(news, unique_id, updates, db_ok) IN
    /\ news' = out.store
    /\ call' = CallRec("update", <<>>, FALSE, news, out.raised,
                       IF out.ret THEN 1 ELSE 0, FALSE)
    /\ UNCHANGED <<now, emb, adapter, syncvars, restvars>>

\* the caller has taken the result of the call
CallReturned ==
    /\ call.op # "none"
    /\ call' = [call EXCEPT !.op = "none", !.news = <<>>, !.pre = {},
                            !.allow_update = FALSE, !.raised = FALSE, !.ret = 0,
                            !.repeat = FALSE]
    /\ UNCHANGED <<news, now, emb, adapter, syncvars, restvars>>

(***************************************************************************)
(* Date windows and fetch order.                                           *)
(***************************************************************************)
\* published_at >= start AND published_at < end::date + INTERVAL '1 day'
InWindow(r, start_date, end_date) ==
    r.published_at >= start_date /\ r.published_at < end_date + 1

\* ORDER BY published_at DESC: every order of the rows the clause allows
\* (rows of equal published_at come in any order)
OrderedDesc(rows) ==
    {q \in [1..Cardinality(rows) -> rows] :
        /\ \A i \in DOMAIN q, j \in DOMAIN q : i # j => q[i] # q[j]
        /\ \A i \in DOMAIN q, j \in DOMAIN q :
              i < j => q[i].published_at >= q[j].published_at}

\* "if limit: query += LIMIT %s": None and 0 both mean no limit
Limited(q, limit) ==
    IF limit = 0 THEN q ELSE SubSeq(q, 1, Min(limit, Len(q)))

(***************************************************************************)
(* EmbeddingGenerator                                                      *)
(***************************************************************************)
\* _fetch_news_without_embeddings: the rows of the window whose vector is
\* NULL, newest first, at most limit of them
WithoutEmbeddings(store, start_date, end_date) ==
    {r \in store : InWindow(r, start_date, end_date) /\ r.content_embedding = NULL}

\* _prepare_text_for_embedding, on the one content column of the model
PrepareText(rec) == rec.title

\* the vector the embeddings API returns for a text
Embed(text) == [dim |-> EMBEDDING_DIM, of |-> text]

EmbIdle == [pc |-> "idle", records |-> <<>>, i |-> 0, batch_size |-> 1,
            processed |-> 0, successful |-> 0, failed |-> 0,
            rows |-> 0, stamp |-> NULL, error |-> "none"]

\* news_records[i : i + batch_size]
EmbBatchOf(e) == SubSeq(e.records, e.i + 1, Min(e.i + e.batch_size, Len(e.records)))

\* a failure count that counts the batch, not its records
CountFailedBatch(e) == [e EXCEPT !.failed = @ + 1]

\* the except clauses of generate_embeddings: the batch is counted failed
CountFailed(e) == [e EXCEPT !.failed = @ + Len(EmbBatchOf(e))]

\* logger.error of the except clauses: what the latest failed batch failed
\* with ("api": HTTPStatusError; "validation": the ValueError or IndexError
\* of _generate_embeddings_batch; "update": _update_embeddings_batch)
Logged(e, error) == [e EXCEPT !.error = error]

\* a loop that gives up after the current batch
EmbStopAfterBatch(e) ==
    [e EXCEPT !.processed = @ + Len(EmbBatchOf(e)),
              !.i = @ + e.batch_size,
              !.rows = 0,
              !.stamp = NULL,
              !.pc = "done"]

\* total_successful += updated, updated being len(news_ids)
CountSuccessful(e) == [e EXCEPT !.successful = @ + Len(EmbBatchOf(e))]

\* total_processed += len(batch), and the for loop moves to the next batch
EmbNextBatch(e) ==
    [e EXCEPT !.processed = @ + Len(EmbBatchOf(e)),
              !.i = @ + e.batch_size,
              !.rows = 0,
              !.stamp = NULL,
              !.pc = IF e.i + e.batch_size >= Len(e.records) THEN "done" ELSE "batch"]

\* generate_embeddings up to the loop: fetch the candidates; an empty
\* result returns zero counters at once; db_ok = FALSE is a database error
\* in the fetch, which propagates to the caller
EmbStart(start_date, end_date, batch_size, max_records, db_ok) ==
    /\ emb.pc \in {"idle", "done", "raised"}
    /\ IF ~db_ok
       THEN emb' = [EmbIdle EXCEPT !.pc = "raised"]
       ELSE \E q \in OrderedDesc(WithoutEmbeddings(news, start_date, end_date)) :
              LET recs == Limited(q, max_records) IN
              emb' = [EmbIdle EXCEPT
                        !.records = [j \in DOMAIN recs |->
                                        [id |-> recs[j].unique_id, title |-> recs[j].title]],
                        !.batch_size = batch_size,
                        !.pc = IF recs = <<>> THEN "done" ELSE "batch"]
    /\ UNCHANGED <<news, now, call, adapter, syncvars, restvars>>

\* _generate_embeddings_batch: the POST, raise_for_status, the 'embeddings'
\* key and the check of shape[1].  resp.status is "ok", "http_error" or
\* "no_key"; resp.rows and resp.dim are the shape of the array returned.
\* An empty array has no shape[1] (IndexError).
ApiAccepted(resp) ==
    /\ resp.status = "ok"
    /\ resp.rows >= 1
    /\ resp.dim = EMBEDDING_DIM

EmbCallAPI(resp) ==
    /\ emb.pc = "batch"
    /\ emb' = IF ApiAccepted(resp)
              THEN [emb EXCEPT !.pc = "persist", !.rows = resp.rows]
              ELSE EmbNextBatch(CountFailed(Logged(emb,
                       IF resp.status = "http_error" THEN "api" ELSE "validation")))
    /\ UNCHANGED <<news, now, call, adapter, syncvars, restvars>>

\* _update_embeddings_batch, first half: update_data pairs embeddings[i]
\* with datetime.utcnow() for i in range(len(news_ids)); an array with
\* fewer rows than ids raises IndexError, which is rolled back and re-raised
EmbStamp ==
    /\ emb.pc = "persist"
    /\ emb' = IF emb.rows < Len(EmbBatchOf(emb))
              THEN EmbNextBatch(CountFailed(Logged(emb, "update")))
              ELSE [emb EXCEPT !.pc = "commit", !.stamp = Some(now)]
    /\ UNCHANGED <<news, now, call, adapter, syncvars, restvars>>

\* an UPDATE that sets embedding_generated_at and leaves the vector as it was
StampOnly(store, batch, stamp) ==
    {IF \E j \in DOMAIN batch : batch[j].id = r.unique_id
     THEN [r EXCEPT !.embedding_generated_at = stamp]
     ELSE r : r \in store}

\* UPDATE news SET content_embedding = %s, embedding_generated_at = %s
\* WHERE id = %s, for every id of the batch
WriteEmbeddings(store, batch, stamp) ==
    {IF \E j \in DOMAIN batch : batch[j].id = r.unique_id
     THEN LET j == CHOOSE j \in DOMAIN batch : batch[j].id = r.unique_id IN
          [r EXCEPT !.content_embedding = Some(Embed(PrepareText(batch[j]))),
                    !.embedding_generated_at = stamp]
     ELSE r : r \in store}

\* a failed transaction that keeps the first UPDATE it executed
FirstWritten(store, batch, stamp) == WriteEmbeddings(store, SubSeq(batch, 1, 1), stamp)

\* except Exception: conn.rollback(): the UPDATEs of the transaction that
\* did execute are undone
RolledBack(store, batch, stamp) == store

\* _update_embeddings_batch, second half: execute_batch and commit; db_ok =
\* FALSE is a database error: rollback, re-raise, the batch counts failed
EmbCommit(db_ok) ==
    /\ emb.pc = "commit"
    /\ IF db_ok
       THEN /\ news' = WriteEmbeddings(news, EmbBatchOf(emb), emb.stamp)
            /\ emb' = EmbNextBatch(CountSuccessful(emb))
       ELSE /\ news' = RolledBack(news, EmbBatchOf(emb), emb.stamp)
            /\ emb' = EmbNextBatch(CountFailed(Logged(emb, "update")))
    /\ UNCHANGED <<now, call, adapter, syncvars, restvars>>

(***************************************************************************)
(* StorageAdapter                                                          *)
(***************************************************************************)
HUGGINGFACE == "huggingface"
POSTGRES == "postgres"
DUAL_WRITE == "dual_write"
StorageBackend == {HUGGINGFACE, POSTGRES, DUAL_WRITE}

\* the agency keys of the reference cache (_agencies_by_key)
KnownAgencies == {"mec"}

AdapterRec(backend, op, hf_attempted, hf_failed, pg_attempted, pg_failed, row_failed, raised, ret) ==
    [backend |-> backend, op |-> op,
     hf_attempted |-> hf_attempted, hf_failed |-> hf_failed,
     pg_attempted |-> pg_attempted, pg_failed |-> pg_failed,
     row_failed |-> row_failed, raised |-> raised, ret |-> ret]

\* "if self.backend in (HUGGINGFACE, DUAL_WRITE)": the legacy write is tried
HfAttempted(backend) == backend \in {HUGGINGFACE, DUAL_WRITE}

\* a relational write that is given up once the legacy write has failed
PgAttemptedUnlessFailed(backend, hf_failed) ==
    backend \in {POSTGRES, DUAL_WRITE} /\ ~hf_failed

\* "if self.backend in (POSTGRES, DUAL_WRITE)": the relational write is
\* tried, whatever became of the legacy write
PgAttempted(backend, hf_failed) == backend \in {POSTGRES, DUAL_WRITE}

\* "if errors": dual-write raises when both backends are in errors, a
\* single backend raises on its one error
AdapterRaises(backend, hf_error, pg_error) ==
    IF backend = DUAL_WRITE THEN hf_error /\ pg_error ELSE hf_error \/ pg_error

\* the theme codes of the reference cache (_themes_by_code) and the id of
\* a theme
KnownThemes == {"01"}
ThemeId(code) == Cardinality(KnownThemes)

\* a published_at cell: NULL, a datetime <<d>>, or a str <<d, iso>>, iso
\* telling whether datetime.fromisoformat accepts the text
DateTime(d) == <<d>>
DateString(d, iso) == <<d, iso>>
FromIsoRaises(published_at) == Len(published_at) = 2 /\ ~published_at[2]

\* a theme lookup that takes an unknown code for the first theme
ResolveThemeIdOrFirst(theme_code) ==
    IF theme_code = NULL THEN NULL ELSE Some(ThemeId(Val(theme_code)))

\* _resolve_theme_id: no code, or a code the cache does not hold, is None
ResolveThemeId(theme_code) ==
    IF theme_code = NULL \/ Val(theme_code) \notin KnownThemes THEN NULL
    ELSE Some(ThemeId(Val(theme_code)))

\* the rows of the loop that reach "continue": published_at missing, the
\* agency key unknown to the cache, or an exception (except Exception)
Skipped(d) ==
    \/ d.published_at = NULL
    \/ FromIsoRaises(d.published_at)
    \/ d.agency \notin KnownAgencies

\* _convert_to_news_insert: news_list, with the fields of the model
RECURSIVE ConvertRecords(_)
ConvertRecords(data) ==
    IF data = <<>> THEN <<>>
    ELSE LET d == Head(data) IN
         IF Skipped(d) THEN ConvertRecords(Tail(data))
         ELSE <<[unique_id |-> d.unique_id, title |-> d.title,
                 published_at |-> d.published_at[1], agency_key |-> d.agency,
                 theme_l1_id |-> ResolveThemeId(d.theme)]>>
                 \o ConvertRecords(Tail(data))

\* _convert_to_news_insert, as the NewsInsert records insert is given (the
\* table of the model has no theme column)
ConvertToNewsInsert(data) ==
    LET recs == ConvertRecords(data) IN
    [j \in DOMAIN recs |->
        NewsInsert(recs[j].unique_id, recs[j].title, recs[j].published_at)]

ConvIdle == [pc |-> "idle", data |-> <<>>, news_list |-> <<>>]

\* PostgresManager.get_agency_by_key, get_theme_by_code
GetAgencyByKey(key, fail) == GetByKey("get_agency_by_key", KnownAgencies, key, fail)
GetThemeByCode(code, fail) == GetByKey("get_theme_by_code", KnownThemes, code, fail)

\* the postgres property: the manager the adapter holds, or, when it holds
\* none, a new PostgresManager on which load_cache is called (the manager
\* is assigned before load_cache, so it is kept when load_cache raises)
PostgresOf(r, p, fail) ==
    IF r.manager = "none" THEN LoadedCache(NewManager, fail) ELSE p

\* the rows of the loop that get as far as the agency lookup
ReachesLookup(d) == d.published_at # NULL /\ ~FromIsoRaises(d.published_at)

\* a call of _convert_to_news_insert on its own: the mappings are read
\* through self.postgres, as they are; from mappings that were not loaded
\* every key is unknown (an exception of load_cache in the property is
\* caught by the loop's except clause)
Convert(data, fail) ==
    LET p == PostgresOf(refs, pg, fail)
        looked == \E j \in DOMAIN data : ReachesLookup(data[j])
    IN
    /\ pg' = IF data = <<>> THEN pg ELSE p
    /\ refs' = IF data = <<>> THEN refs
               ELSE [refs EXCEPT
                       !.manager = IF @ = "none" THEN "own" ELSE @,
                       !.selected = IF refs.manager = "none"
                                    THEN LoadSelects(NewManager, fail) ELSE @,
                       !.op = IF looked THEN "convert" ELSE @,
                       !.loaded = IF looked THEN p.cache_loaded ELSE @,
                       !.found = IF looked
                                 THEN p.cache_loaded /\ \E j \in DOMAIN data :
                                         ReachesLookup(data[j]) /\ data[j].agency \in KnownAgencies
                                 ELSE @]
    /\ conv' = [pc |-> "returned", data |-> data,
                news_list |-> IF data # <<>> /\ ~p.cache_loaded THEN <<>>
                              ELSE ConvertRecords(data)]
    /\ UNCHANGED <<news, now, call, emb, adapter, syncvars, iter, prep, reader, job, pib>>

\* the read backend of __init__: the argument, else STORAGE_READ_FROM, else
\* the legacy backend in dual-write, else the write backend
ReadFrom(backend, read_from, read_str_env) ==
    IF read_from # NULL THEN Val(read_from)
    ELSE IF read_str_env # NULL THEN Val(read_str_env)
    ELSE IF backend = DUAL_WRITE THEN HUGGINGFACE
    ELSE backend

ReaderIdle == [read_from |-> "unset", arg |-> NULL, env |-> NULL,
               op |-> "none", source |-> "none", raised |-> FALSE]

\* StorageAdapter.__init__: backend is the write backend (the argument or
\* STORAGE_BACKEND), read_from the argument and read_str_env the value of
\* STORAGE_READ_FROM (NULL when not given); postgres_manager tells whether
\* a pre-built PostgresManager is given
AdapterInit(backend, read_from, read_str_env, postgres_manager) ==
    /\ adapter.backend = "unset"
    /\ adapter' = [adapter EXCEPT !.backend = backend]
    /\ reader' = [ReaderIdle EXCEPT
                    !.read_from = ReadFrom(backend, read_from, read_str_env),
                    !.arg = read_from, !.env = read_str_env]
    /\ refs' = [refs EXCEPT !.manager = IF postgres_manager THEN "given" ELSE "none"]
    /\ UNCHANGED <<news, now, call, emb, syncvars, pg, iter, prep, conv, job, pib>>

\* StorageAdapter.__init__ with no read backend and no manager given
AdapterCreate(backend) == AdapterInit(backend, NULL, NULL, FALSE)

\* StorageAdapter.get: the legacy backend when read_from is HUGGINGFACE, else
\* _get_postgres
AdapterGet ==
    /\ reader.read_from # "unset"
    /\ reader' = [reader EXCEPT
                    !.op = "get",
                    !.source = IF reader.read_from = HUGGINGFACE THEN HUGGINGFACE
                               ELSE POSTGRES,
                    !.raised = FALSE]
    /\ UNCHANGED <<news, now, call, emb, adapter, syncvars, pg, iter, prep, conv, jobvars>>

\* StorageAdapter.get_count: self.postgres.get_count() when read_from is
\* POSTGRES, which PostgresManager does not define (AttributeError), else
\* the length of the legacy dataset
AdapterGetCount ==
    /\ reader.read_from # "unset"
    /\ reader' = [reader EXCEPT
                    !.op = "get_count",
                    !.source = IF reader.read_from = POSTGRES THEN POSTGRES
                               ELSE HUGGINGFACE,
                    !.raised = (reader.read_from = POSTGRES)]
    /\ UNCHANGED <<news, now, call, emb, adapter, syncvars, pg, iter, prep, conv, jobvars>>

\* StorageAdapter.insert(new_data, allow_update); hf_ok and db_ok are the
\* outcomes of the legacy insert and of the database statement
AdapterInsert(new_data, allow_update, hf_ok, db_ok) ==
    /\ adapter.backend \in StorageBackend
    /\ LET b == adapter.backend
           hf_try == HfAttempted(b)
           hf_error == hf_try /\ ~hf_ok
           pg_try == PgAttempted(b, hf_error)
           out == IF pg_try
                  THEN InsertOutcome(news, ConvertToNewsInsert(new_data), allow_update, db_ok)
                  ELSE [store |-> news, raised |-> FALSE, ret |-> 0]
           pg_error == pg_try /\ out.raised
           inserted == IF pg_try /\ ~out.raised THEN out.ret
                       ELSE IF hf_try /\ hf_ok THEN Len(new_data)
                       ELSE 0
       IN
       /\ news' = out.store
       /\ adapter' = AdapterRec(b, "insert", hf_try, hf_error, pg_try, pg_error, FALSE,
                                AdapterRaises(b, hf_error, pg_error), inserted)
       /\ UNCHANGED <<now, call, emb, syncvars, restvars>>

\* _update_postgres: row by row; a row whose unique_id is empty is skipped;
\* a list-valued cell makes "if pd.isna(value)" raise ValueError out of the
\* loop; a non-empty field map goes to PostgresManager.update, whose
\* exception is logged and dropped.  row_ok[i] is the outcome of the
\* database statement of row i.
RECURSIVE UpdatePostgres(_, _, _, _, _)
UpdatePostgres(store, df, row_ok, i, acc) ==
    IF i > Len(df) THEN [acc EXCEPT !.store = store]
    ELSE LET row == df[i] IN
         IF row.unique_id = NULL
         THEN UpdatePostgres(store, df, row_ok, i + 1, acc)
         ELSE IF row.list_cell
         THEN [acc EXCEPT !.store = store, !.raised = TRUE]
         ELSE IF DOMAIN row.updates = {}
         THEN UpdatePostgres(store, df, row_ok, i + 1, acc)
         ELSE LET out == UpdateOutcome(store, Val(row.unique_id), row.updates, row_ok[i]) IN
              UpdatePostgres(out.store, df, row_ok, i + 1,
                  [acc EXCEPT !.updated = IF ~out.raised /\ out.ret THEN @ + 1 ELSE @,
                              !.row_failed = @ \/ out.raised])

\* StorageAdapter.update(updated_df)
AdapterUpdate(df, hf_ok, row_ok) ==
    /\ adapter.backend \in StorageBackend
    /\ LET b == adapter.backend
           hf_try == HfAttempted(b)
           hf_error == hf_try /\ ~hf_ok
           pg_try == PgAttempted(b, hf_error)
           none == [store |-> news, updated |-> 0, raised |-> FALSE, row_failed |-> FALSE]
           out == IF pg_try THEN UpdatePostgres(news, df, row_ok, 1, none) ELSE none
           pg_error == pg_try /\ out.raised
           updated == IF pg_try /\ ~out.raised THEN out.updated
                      ELSE IF hf_try /\ hf_ok THEN Len(df)
                      ELSE 0
       IN
       /\ news' = out.store
       /\ adapter' = AdapterRec(b, "update", hf_try, hf_error, pg_try, pg_error,
                                out.row_failed, AdapterRaises(b, hf_error, pg_error), updated)
       /\ UNCHANGED <<now, call, emb, syncvars, restvars>>

(***************************************************************************)
(* TypesenseSyncManager                                                    *)
(***************************************************************************)
OPERATION == "typesense_embeddings_sync"

\* a row of sync_log
LogEntry(operation, status, completed_at) ==
    [operation |-> operation, status |-> status, completed_at |-> completed_at]

\* what self.client.collections[...].retrieve() may come to: the collection
\* with or without its content_embedding field, ObjectNotFound, or another
\* error of the client (no connection)
CheckOutcomes == {"ok", "no_field", "not_found", "conn_error"}

\* a check that lets an error of the connection pass
CheckRaisesNotFound(outcome) == outcome = "not_found"

\* _check_collection_schema: a missing field is only warned about;
\* ObjectNotFound becomes ValueError; any other exception propagates
CheckRaises(outcome) == outcome \in {"not_found", "conn_error"}

\* a watermark query that returns the oldest completed sync
OldestSyncTimestamp(log) ==
    LET done == {e \in log.rows : e.operation = OPERATION /\ e.status = "completed"} IN
    IF ~log.exists \/ done = {} THEN NULL
    ELSE Some(CHOOSE t \in {e.completed_at : e \in done} :
                 \A e \in done : t <= e.completed_at)

\* _get_last_sync_timestamp: completed_at of the latest completed
\* typesense_embeddings_sync; None without such a row or without the table
LastSyncTimestamp(log) ==
    LET done == {e \in log.rows : e.operation = OPERATION /\ e.status = "completed"} IN
    IF ~log.exists \/ done = {} THEN NULL
    ELSE Some(CHOOSE t \in {e.completed_at : e \in done} :
                 \A e \in done : t >= e.completed_at)

\* a timestamp filter that lets the watermark itself through
NotBefore(generated_at, t0) == generated_at # NULL /\ Val(generated_at) >= Val(t0)

\* AND n.embedding_generated_at > %s (a NULL timestamp compares as unknown)
After(generated_at, t0) == generated_at # NULL /\ Val(generated_at) > Val(t0)

\* the WHERE clause of _fetch_news_with_new_embeddings
WithNewEmbeddings(store, start_date, end_date, last_sync_timestamp) ==
    {r \in store :
        /\ InWindow(r, start_date, end_date)
        /\ r.content_embedding # NULL
        /\ r.published_at >= Day2025
        /\ last_sync_timestamp # NULL => After(r.embedding_generated_at, last_sync_timestamp)}

\* _prepare_typesense_document on the columns of the model: the key, the
\* publication time, the non-empty title and the vector as a list
PrepareDocument(r) ==
    [unique_id |-> r.unique_id, published_at |-> r.published_at, title |-> r.title,
     content_embedding |-> Val(r.content_embedding)]

\* import_ with action upsert, for one document the server accepted
Upsert(docs, d) == {x \in docs : x.unique_id # d.unique_id} \cup {d}

\* the index after import_: document j is stored when the server's j-th
\* result says success (results beyond the batch name no document)
RECURSIVE UpsertAll(_, _, _)
UpsertAll(docs, batch, ok) ==
    IF batch = <<>> \/ ok = <<>> THEN docs
    ELSE UpsertAll(IF Head(ok) THEN Upsert(docs, PrepareDocument(Head(batch))) ELSE docs,
                   Tail(batch), Tail(ok))

SyncIdle ==
    [pc |-> "idle", start_date |-> 1, end_date |-> 1, full_sync |-> FALSE,
     batch_size |-> 1, max_records |-> 0, check |-> "ok",
     last_sync_timestamp |-> NULL, records |-> <<>>, i |-> 0,
     processed |-> 0, successful |-> 0, failed |-> 0,
     queries |-> 0, imports |-> 0, store |-> {}, logged |-> FALSE, first |-> NULL,
     raised |-> FALSE]

\* what a later run records of the run before it
RunSummary(s, docs) ==
    [store |-> s.store, index |-> docs, failed |-> s.failed,
     records |-> s.records, logged |-> s.logged]

\* news_records[i : i + batch_size]
SyncBatchOf(s) == SubSeq(s.records, s.i + 1, Min(s.i + s.batch_size, Len(s.records)))

\* a failure count that leaves out the batches whose import raised
SyncCountReported(s, successes, raised) ==
    IF raised THEN s
    ELSE [s EXCEPT !.successful = @ + successes,
                   !.failed = @ + (Len(SyncBatchOf(s)) - successes)]

\* total_successful += successful; total_failed += len(batch) - successful,
\* or total_failed += len(batch) in the except clause
SyncCount(s, successes, raised) ==
    IF raised THEN [s EXCEPT !.failed = @ + Len(SyncBatchOf(s))]
    ELSE [s EXCEPT !.successful = @ + successes,
                   !.failed = @ + (Len(SyncBatchOf(s)) - successes)]

\* a loop that gives up after the current batch
SyncStopAfterBatch(s) ==
    [s EXCEPT !.processed = @ + Len(SyncBatchOf(s)),
              !.i = @ + s.batch_size,
              !.imports = @ + 1,
              !.pc = "done"]

\* total_processed += len(batch), and the for loop moves to the next batch
SyncNextBatch(s) ==
    [s EXCEPT !.processed = @ + Len(SyncBatchOf(s)),
              !.i = @ + s.batch_size,
              !.imports = @ + 1,
              !.pc = IF s.i + s.batch_size >= Len(s.records) THEN "done" ELSE "batch"]

\* sync_embeddings up to _check_collection_schema; first is what the caller
\* keeps of the run before (NULL when this run is not a repetition)
SyncStart(start_date, end_date, full_sync, batch_size, max_records, outcome, first) ==
    /\ sync.pc \in {"idle", "done", "raised"}
    /\ sync' = [SyncIdle EXCEPT
                  !.start_date = start_date, !.end_date = end_date,
                  !.full_sync = full_sync, !.batch_size = batch_size,
                  !.max_records = max_records, !.check = outcome, !.first = first,
                  !.pc = IF CheckRaises(outcome) THEN "raised" ELSE "fetch"]
    /\ UNCHANGED <<news, now, call, emb, adapter, sync_log, index, restvars>>

\* last_sync_timestamp = None if full_sync else _get_last_sync_timestamp(),
\* then _fetch_news_with_new_embeddings; an empty result returns zero
\* counters at once; db_ok = FALSE is a database error, which propagates
SyncFetch(db_ok) ==
    /\ sync.pc = "fetch"
    /\ IF ~db_ok
       THEN sync' = [sync EXCEPT !.pc = "raised", !.queries = 1]
       ELSE LET t0 == IF sync.full_sync THEN NULL ELSE LastSyncTimestamp(sync_log) IN
            \E q \in OrderedDesc(WithNewEmbeddings(news, sync.start_date, sync.end_date, t0)) :
               LET recs == Limited(q, sync.max_records) IN
               sync' = [sync EXCEPT
                          !.last_sync_timestamp = t0,
                          !.records = recs,
                          !.store = news,
                          !.queries = IF sync.full_sync THEN 1 ELSE 2,
                          !.pc = IF recs = <<>> THEN "done" ELSE "batch"]
    /\ UNCHANGED <<news, now, call, emb, adapter, sync_log, index, restvars>>

\* one turn of the loop: prepare the documents and import them; ok[j] is
\* the success flag the server returns for document j; raised is an
\* exception of import_, which may come after the server stored documents
\* (sync.raised keeps whether the except clause logged the batch)
SyncBatch(ok, raised) ==
    /\ sync.pc = "batch"
    /\ LET batch == SyncBatchOf(sync)
           successes == Cardinality({j \in DOMAIN ok : ok[j]})
       IN
       /\ index' = UpsertAll(index, batch, ok)
       /\ sync' = SyncNextBatch(SyncCount([sync EXCEPT !.raised = raised], successes, raised))
    /\ UNCHANGED <<news, now, call, emb, adapter, sync_log, restvars>>

\* CREATE TABLE sync_log
CreateSyncLog ==
    /\ ~sync_log.exists
    /\ sync_log' = [sync_log EXCEPT !.exists = TRUE]
    /\ UNCHANGED <<news, now, call, emb, adapter, index, sync, restvars>>

\* the caller of sync_embeddings, once the call has returned: INSERT INTO
\* sync_log VALUES ('typesense_embeddings_sync', 'completed', NOW())
RecordSync ==
    /\ sync.pc = "done"
    /\ ~sync.logged
    /\ sync_log.exists
    /\ sync_log' = [sync_log EXCEPT !.rows = @ \cup {LogEntry(OPERATION, "completed", now)}]
    /\ sync' = [sync EXCEPT !.logged = TRUE]
    /\ UNCHANGED <<news, now, call, emb, adapter, index, restvars>>

\* the caller has taken the result of the run
SyncReturned ==
    /\ sync.pc \in {"done", "raised"}
    /\ sync' = SyncIdle
    /\ UNCHANGED <<news, now, call, emb, adapter, sync_log, index, restvars>>

\* the caller has taken the result of the embedding run
EmbReturned ==
    /\ emb.pc \in {"done", "raised"}
    /\ emb' = EmbIdle
    /\ UNCHANGED <<news, now, call, adapter, syncvars, restvars>>

(***************************************************************************)
(* PostgresManager.iter_news_for_typesense                                 *)
(***************************************************************************)
\* the rows of the window (count_news_for_typesense counts them)
NewsForTypesense(store, start_date, end_date) ==
    {r \in store : InWindow(r, start_date, end_date)}

IterIdle ==
    [pc |-> "idle", start_date |-> 1, end_date |-> 1, batch_size |-> 1,
     total_count |-> 0, offset |-> 0, batches |-> <<>>, store |-> {},
     queries |-> 0]

\* rows offset + 1 .. offset + limit of an ordered result (LIMIT, OFFSET)
Page(q, limit, offset) == SubSeq(q, offset + 1, Min(offset + limit, Len(q)))

\* the generator up to its loop: total_count from
\* count_news_for_typesense; nothing is yielded when it is 0 (store keeps
\* the table as the count query saw it)
IterBegin(store, start_date, end_date, batch_size) ==
    LET n == Cardinality(NewsForTypesense(store, start_date, end_date)) IN
    [IterIdle EXCEPT !.start_date = start_date, !.end_date = end_date,
                     !.batch_size = batch_size, !.total_count = n,
                     !.store = store,
                     !.pc = IF n = 0 THEN "done" ELSE "page"]

IterStart(start_date, end_date, batch_size) ==
    /\ iter.pc \in {"idle", "done"}
    /\ iter' = IterBegin(news, start_date, end_date, batch_size)
    /\ UNCHANGED <<news, now, call, emb, adapter, syncvars, pg, prep, reader, conv, jobvars>>

\* one turn of the loop: a query of its own, ORDER BY published_at DESC
\* LIMIT batch_size OFFSET offset; an empty page ends the iteration; the
\* page is yielded (its unique_id column is kept) and offset moves on
\* (queries counts the page queries made)
IterPageOf(it, q) ==
    LET df == Page(q, it.batch_size, it.offset) IN
    IF df = <<>>
    THEN [it EXCEPT !.pc = "done", !.queries = @ + 1]
    ELSE [it EXCEPT
            !.queries = @ + 1,
            !.batches = Append(@, [j \in DOMAIN df |-> df[j].unique_id]),
            !.offset = @ + it.batch_size,
            !.pc = IF it.offset + it.batch_size < it.total_count
                   THEN "page" ELSE "done"]

IterPage ==
    /\ iter.pc = "page"
    /\ \E q \in OrderedDesc(NewsForTypesense(news, iter.start_date, iter.end_date)) :
          iter' = IterPageOf(iter, q)
    /\ UNCHANGED <<news, now, call, emb, adapter, syncvars, pg, prep, reader, conv, jobvars>>

\* sync_news of sync_prod_to_local: DELETE FROM news WHERE published_at is
\* in the date range, committed at once
DeleteNews(start_date, end_date) ==
    /\ news' = {r \in news : ~InWindow(r, start_date, end_date)}
    /\ UNCHANGED <<now, call, emb, adapter, syncvars, restvars>>

(***************************************************************************)
(* sync_to_typesense                                                       *)
(***************************************************************************)
\* held is the number of pages a local name still refers to between two
\* turns of the loop, peak the largest number of pages referred to at once
JobIdle ==
    [pc |-> "idle", path |-> "none", limit |-> 0, pg_batch_size |-> 1,
     total_fetched |-> 0, index_calls |-> 0, held |-> 0, peak |-> 0]

\* a choice of path that takes the single-shot fetch for any limit
EagerWhenLimited(limit, pg_batch_size) == limit # 0

\* "if limit and limit <= pg_batch_size": the single-shot fetch is taken
\* (limit = 0 stands for None, as in Limited)
Eager(limit, pg_batch_size) == limit # 0 /\ limit <= pg_batch_size

Max(a, b) == IF a >= b THEN a ELSE b

\* "if limit and stats['total_fetched'] >= limit: break"
LimitReached(limit, total_fetched) == limit # 0 /\ total_fetched >= limit

\* sync_to_typesense up to the first page: _sync_small_dataset as a whole
\* (get_news_for_typesense with LIMIT, one index_documents call unless the
\* frame is empty), or the start of iter_news_for_typesense
JobStart(start_date, end_date, pg_batch_size, limit) ==
    /\ job.pc \in {"idle", "returned"}
    /\ iter.pc \in {"idle", "done"}
    /\ IF Eager(limit, pg_batch_size)
       THEN /\ \E q \in OrderedDesc(NewsForTypesense(news, start_date, end_date)) :
                 LET df == Limited(q, limit) IN
                 job' = [JobIdle EXCEPT
                           !.pc = "returned", !.path = "eager", !.limit = limit,
                           !.pg_batch_size = pg_batch_size,
                           !.total_fetched = Len(df),
                           !.peak = 1,
                           !.index_calls = IF df = <<>> THEN 0 ELSE 1]
            /\ UNCHANGED iter
       ELSE LET it == IterBegin(news, start_date, end_date, pg_batch_size) IN
            /\ iter' = it
            /\ job' = [JobIdle EXCEPT
                         !.pc = IF it.pc = "done" THEN "returned" ELSE "stream",
                         !.path = "stream", !.limit = limit,
                         !.pg_batch_size = pg_batch_size]
    /\ UNCHANGED <<news, now, call, emb, adapter, syncvars, pg, prep, reader, conv, pib, refs>>

\* one turn of the for loop over iter_news_for_typesense: the page is
\* counted, index_documents is called on it, and the loop breaks once
\* total_fetched has reached limit (the generator is then dropped).  The
\* names df_batch of the loop and df of the generator refer to the page of
\* the turn before while read_sql_query builds the next one, and are bound
\* to the new page then; a return drops them
JobPage ==
    /\ job.pc = "stream"
    /\ iter.pc = "page"
    /\ \E q \in OrderedDesc(NewsForTypesense(news, iter.start_date, iter.end_date)) :
          LET it == IterPageOf(iter, q)
              yielded == Len(it.batches) > Len(iter.batches)
              fetched == job.total_fetched + Len(it.batches[Len(it.batches)])
          IN
          IF ~yielded
          THEN /\ iter' = it
               /\ job' = [job EXCEPT !.pc = "returned", !.held = 0,
                                     !.peak = Max(@, job.held + 1)]
          ELSE /\ iter' = IF LimitReached(job.limit, fetched)
                          THEN [it EXCEPT !.pc = "done"] ELSE it
               /\ job' = [job EXCEPT
                            !.total_fetched = fetched,
                            !.index_calls = @ + 1,
                            !.peak = Max(@, job.held + 1),
                            !.held = IF LimitReached(job.limit, fetched) \/ it.pc = "done"
                                     THEN 0 ELSE 1,
                            !.pc = IF LimitReached(job.limit, fetched) \/ it.pc = "done"
                                   THEN "returned" ELSE "stream"]
    /\ UNCHANGED <<news, now, call, emb, adapter, syncvars, pg, prep, reader, conv, pib, refs>>

(***************************************************************************)
(* utils.batch.process_in_batches                                          *)
(***************************************************************************)
\* stats, the loop index i, and what process_fn saw: calls is the number of
\* its calls, called_items the items of the batches it was called on and
\* after_failure the calls made after a call that raised
PibIdle ==
    [pc |-> "idle", on_error |-> "continue", batch_size |-> 1, i |-> 0,
     total |-> 0, processed |-> 0, errors |-> 0,
     batches_total |-> 0, batches_success |-> 0, batches_failed |-> 0,
     calls |-> 0, called_items |-> 0, after_failure |-> 0]

\* a loop that never breaks
NeverBreaks(on_error) == FALSE

\* if on_error == "stop": break
Breaks(on_error) == on_error = "stop"

\* len(items[i : i + batch_size])
PibBatchLen(p) == Min(p.batch_size, p.total - p.i)

\* process_in_batches up to the loop: an empty list returns the zero stats
PibStart(n, batch_size, on_error) ==
    /\ pib.pc \in {"idle", "returned"}
    /\ pib' = [PibIdle EXCEPT !.total = n, !.batch_size = batch_size,
                              !.on_error = on_error,
                              !.pc = IF n = 0 THEN "returned" ELSE "loop"]
    /\ UNCHANGED <<news, now, call, emb, adapter, syncvars, pg, iter, prep, reader, conv, job, refs>>

\* one turn of the loop; fn_ok tells whether process_fn(batch) returned
PibBatch(fn_ok) ==
    /\ pib.pc = "loop"
    /\ LET len == PibBatchLen(pib)
           last == pib.i + pib.batch_size >= pib.total
           seen == [pib EXCEPT !.batches_total = @ + 1,
                               !.calls = @ + 1,
                               !.called_items = @ + len,
                               !.after_failure = IF pib.batches_failed > 0 THEN @ + 1 ELSE @,
                               !.i = @ + pib.batch_size]
       IN
       pib' = IF fn_ok
              THEN [seen EXCEPT !.processed = @ + len, !.batches_success = @ + 1,
                                !.pc = IF last THEN "returned" ELSE "loop"]
              ELSE [seen EXCEPT !.errors = @ + len, !.batches_failed = @ + 1,
                                !.pc = IF last \/ Breaks(pib.on_error)
                                       THEN "returned" ELSE "loop"]
    /\ UNCHANGED <<news, now, call, emb, adapter, syncvars, pg, iter, prep, reader, conv, job, refs>>

(***************************************************************************)
(* _prepare_typesense_document: the content_embedding column               *)
(***************************************************************************)
\* float32 values by the two 16-bit halves of their IEEE 754 bit patterns:
\* 0.0 (0x00000000), -1.0 (0xBF800000) and 0.1 (0x3DCCCCCD)
Float32s == {<<0, 0>>, <<49024, 0>>, <<15820, 52429>>}
Zero == <<0, 0>>

\* struct.pack('!f', x) and struct.unpack('!f', b): four bytes, big-endian
Pack32(x) == <<x[1] \div 256, x[1] % 256, x[2] \div 256, x[2] % 256>>
Unpack32(b) == <<b[1] * 256 + b[2], b[3] * 256 + b[4]>>

\* struct.pack('!H', dim) and struct.unpack('!H', b): two bytes, big-endian
PackH(dim) == <<dim \div 256, dim % 256>>
UnpackH(b) == b[1] * 256 + b[2]

\* the binary form of a vector: struct.pack('!H', dim) + struct.pack(f'!{dim}f', *floats)
RECURSIVE PackAll(_)
PackAll(v) == IF v = <<>> THEN <<>> ELSE Pack32(Head(v)) \o PackAll(Tail(v))
Encode(v) == PackH(Len(v)) \o PackAll(v)

\* a value of the content_embedding key: kind is its Python type, value its
\* content (the numbers of a list, tuple, array or of the text of a str,
\* the bytes of a bytes object) and closed tells, for a str, that the text
\* is complete JSON ("[1.0, 0.0]") and not a cut one ("[1.0, 0.0")
Repr(kind, value, closed) == [kind |-> kind, value |-> value, closed |-> closed]
None == Repr("none", <<>>, TRUE)

\* if news.get('content_embedding'): the truth value of the object; the
\* truth value of an ndarray of more than one element raises ValueError
TruthRaises(e) == e.kind = "ndarray" /\ Len(e.value) > 1
Truthy(e) ==
    CASE e.kind = "none"    -> FALSE
      [] e.kind = "str"     -> TRUE
      [] e.kind = "ndarray" -> e.value # <<>> /\ e.value[1] # Zero
      [] OTHER              -> e.value # <<>>

\* json.loads(embedding) raises JSONDecodeError on a text that is not JSON
LoadsRaises(e) == ~e.closed

\* struct.unpack('!H', data[:2]) needs two bytes and
\* struct.unpack(f'!{dim}f', data[2:]) needs 4 * dim bytes (struct.error)
UnpackRaises(data) ==
    \/ Len(data) < 2
    \/ Len(data) - 2 # 4 * UnpackH(data)

Unpacked(data) ==
    [j \in 1..UnpackH(data) |-> Unpack32(SubSeq(data, 4 * j - 1, 4 * j + 2))]

\* the branch on the type of the value: embedding_list, or an exception
\* (NULL is embedding_list = None)
Returned(list) == [raised |-> FALSE, embedding_list |-> list]
Raised == [raised |-> TRUE, embedding_list |-> NULL]

EmbeddingList(e) ==
    CASE e.kind = "str"   -> IF LoadsRaises(e) THEN Raised ELSE Returned(Some(e.value))
      [] e.kind = "bytes" -> IF UnpackRaises(e.value) THEN Raised
                             ELSE Returned(Some(Unpacked(e.value)))
      [] e.kind = "list"  -> Returned(Some(e.value))
      [] OTHER            -> Returned(NULL)

\* the content_embedding of the document: NULL when the key is left out
\* (if embedding_list: an empty list is left out too)
DocEmbedding(e) ==
    IF TruthRaises(e) THEN Raised
    ELSE IF ~Truthy(e) THEN Returned(NULL)
    ELSE LET r == EmbeddingList(e) IN
         IF r.raised \/ r.embedding_list = NULL \/ r.embedding_list = Some(<<>>)
         THEN [r EXCEPT !.embedding_list = NULL]
         ELSE r

PrepIdle == [pc |-> "idle", vector |-> <<>>, input |-> None, raised |-> FALSE,
             content_embedding |-> NULL]

\* _prepare_typesense_document on a record whose content_embedding is e;
\* vector is the stored vector e stands for
PrepareTypesenseDocument(vector, e) ==
    /\ prep' = LET r == DocEmbedding(e) IN
               [pc |-> IF r.raised THEN "raised" ELSE "returned",
                vector |-> vector, input |-> e, raised |-> r.raised,
                content_embedding |-> r.embedding_list]
    /\ UNCHANGED <<news, now, call, emb, adapter, syncvars, pg, iter, reader, conv, jobvars>>

\* the clock advances between operations
Tick ==
    /\ now < MaxTime
    /\ now' = now + 1
    /\ UNCHANGED <<news, call, emb, adapter, syncvars, restvars>>

NoCall == CallRec("none", <<>>, FALSE, {}, FALSE, 0, FALSE)

Init ==
    /\ news = {}
    /\ now = 0
    /\ call = NoCall
    /\ emb = EmbIdle
    /\ adapter = AdapterRec("unset", "none", FALSE, FALSE, FALSE, FALSE, FALSE, FALSE, 0)
    /\ sync_log = [exists |-> FALSE, rows |-> {}]
    /\ index = {}
    /\ sync = SyncIdle
    /\ pg = [checked_out |-> 0, cache_loaded |-> FALSE]
    /\ iter = IterIdle
    /\ prep = PrepIdle
    /\ reader = ReaderIdle
    /\ conv = ConvIdle
    /\ job = JobIdle
    /\ pib = PibIdle
    /\ refs = RefsIdle

vars == <<news, now, call, emb, adapter, sync_log, index, sync, pg, iter, prep, reader, conv, jobvars>>

(***************************************************************************)
(* Inputs.                                                                 *)
(***************************************************************************)
VectorKeys == 1..NumVectorKeys
Payloads(days) == {NewsInsert(k, t, d) : k \in Keys, t \in Titles, d \in days}
Lists(S, n) == UNION {[1..m -> S] : m \in 0..n}

\* field maps handed to update: content columns and the vector columns
TitleMaps == {[title |-> t] : t \in Titles}

(***************************************************************************)
(* SpecInsert: the news table under PostgresManager.insert and update.     *)
(***************************************************************************)
InsertCall ==
    /\ call.op = "none"
    /\ \E recs \in Lists(Payloads({Day2025}), MaxList), allow_update \in BOOLEAN,
          db_ok \in BOOLEAN :
           PgInsert(recs, allow_update, db_ok)

\* the caller hands the list it has just inserted to insert once more
InsertAgain ==
    /\ call.op = "insert"
    /\ ~call.raised
    /\ \E allow_update \in BOOLEAN : PgInsert(call.news, allow_update, TRUE)

UpdateTitleCall ==
    /\ call.op = "none"
    /\ \E k \in Keys, u \in TitleMaps \cup {<<>>}, db_ok \in BOOLEAN :
           PgUpdate(k, u, db_ok)

NextInsert == InsertCall \/ InsertAgain \/ UpdateTitleCall \/ CallReturned

SpecInsert == Init /\ [][NextInsert]_vars

(***************************************************************************)
(* SpecEmb: embedding runs over a table that single-record inserts fill.   *)
(***************************************************************************)
Windows == {w \in Days \X Days : w[1] <= w[2]}
BatchSizes == 1..MaxBatch
Limits == 0..MaxLimit

\* what the embeddings API may answer to a batch of n texts
Responses(n) ==
    {[status |-> st, rows |-> 0, dim |-> 0] : st \in {"http_error", "no_key"}}
    \cup {[status |-> "ok", rows |-> r, dim |-> d] :
             r \in 0..(n + 1), d \in {EMBEDDING_DIM, WrongDim}}

InsertOneCall ==
    /\ call.op = "none"
    /\ \E n \in Payloads(Days) : PgInsert(<<n>>, FALSE, TRUE)

EmbStartCall ==
    /\ call.op = "none"
    /\ \E w \in Windows, bs \in BatchSizes, lim \in Limits, db_ok \in BOOLEAN :
           EmbStart(w[1], w[2], bs, lim, db_ok)

EmbApiStep ==
    /\ call.op = "none"
    /\ \E resp \in Responses(Len(EmbBatchOf(emb))) : EmbCallAPI(resp)

EmbStampStep == call.op = "none" /\ EmbStamp

EmbCommitStep == call.op = "none" /\ \E db_ok \in BOOLEAN : EmbCommit(db_ok)

NextEmb ==
    \/ InsertOneCall
    \/ CallReturned
    \/ EmbStartCall
    \/ EmbApiStep
    \/ EmbStampStep
    \/ EmbCommitStep

SpecEmb == Init /\ [][NextEmb]_vars

(***************************************************************************)
(* SpecSync: sync_embeddings runs, their caller's sync_log entries, and    *)
(* the inserts and embedding runs that fill the table between runs.        *)
(***************************************************************************)
\* no call and no run is under way
Quiet == call.op = "none" /\ emb.pc = "idle" /\ sync.pc = "idle"

SyncWindows == {<<1, 1>>, <<1, NumDays>>}

QuietInsertCall ==
    /\ Quiet
    /\ \E k \in VectorKeys, d \in Days : PgInsert(<<NewsInsert(k, 1, d)>>, FALSE, TRUE)

QuietEmbStartCall == Quiet /\ EmbStart(1, NumDays, MaxBatch, 0, TRUE)

EmbOkStep ==
    /\ \E resp \in {r \in Responses(Len(EmbBatchOf(emb))) : r.status = "ok" /\ r.rows > 0} :
          EmbCallAPI(resp)

QuietTick == Quiet /\ Tick

QuietCreateSyncLog == Quiet /\ CreateSyncLog

SyncStartCall ==
    /\ Quiet
    /\ \E w \in SyncWindows, full_sync \in BOOLEAN, bs \in BatchSizes,
          lim \in 0..1, outcome \in CheckOutcomes :
           SyncStart(w[1], w[2], full_sync, bs, lim, outcome, NULL)

\* the caller runs the sync that has just returned once more, with the
\* same arguments
SyncAgainCall ==
    /\ sync.pc = "done"
    /\ sync.first = NULL
    /\ \E outcome \in CheckOutcomes :
           SyncStart(sync.start_date, sync.end_date, sync.full_sync, sync.batch_size,
                     sync.max_records, outcome, Some(RunSummary(sync, index)))

SyncFetchStep == \E db_ok \in BOOLEAN : SyncFetch(db_ok)

SyncBatchStep ==
    \E ok \in [1..Len(SyncBatchOf(sync)) -> BOOLEAN], raised \in BOOLEAN :
        SyncBatch(ok, raised)

NextSync ==
    \/ QuietInsertCall
    \/ CallReturned
    \/ QuietEmbStartCall
    \/ EmbOkStep
    \/ EmbStampStep
    \/ EmbCommitStep
    \/ EmbReturned
    \/ QuietTick
    \/ QuietCreateSyncLog
    \/ SyncStartCall
    \/ SyncAgainCall
    \/ SyncFetchStep
    \/ SyncBatchStep
    \/ RecordSync
    \/ SyncReturned

SpecSync == Init /\ [][NextSync]_vars

(***************************************************************************)
(* Claims on EmbeddingGenerator.generate_embeddings.                       *)
(***************************************************************************)
\* C1: whatever batches fail at the API call, at validation or at
\* persistence, the counters a run returns satisfy processed = successful +
\* failed, and processed is the number of candidates selected before
\* batching.
C1_CountersAddUp ==
    emb.pc = "done" =>
        /\ emb.processed = emb.successful + emb.failed
        /\ emb.processed = Len(emb.records)

\* C1 witness: a run over several candidates has returned with some batch
\* failed and some batch persisted
C1_Witness ==
    /\ emb.pc = "done"
    /\ Len(emb.records) >= 2
    /\ emb.failed > 0
    /\ emb.successful > 0

(***************************************************************************)
(* SpecAdapter: the StorageAdapter writing to the table.                   *)
(***************************************************************************)
\* legacy flat-format rows: the agency key may be unknown to the cache and
\* published_at may be missing
FlatRows ==
    {[unique_id |-> k, agency |-> a, title |-> 1, published_at |-> d, theme |-> NULL] :
        k \in Keys, a \in {"mec", "zzz"}, d \in {NULL, Some(Day2025)}}

\* field maps over the content column
ContentMaps == {<<>>, [title |-> NumTitles]}

\* field maps over the vector columns
VectorMaps ==
    {[content_embedding |-> Some(Embed(1))],
     [content_embedding |-> NULL],
     [embedding_generated_at |-> Some(now)],
     [embedding_generated_at |-> NULL],
     [content_embedding |-> Some(Embed(1)), embedding_generated_at |-> Some(now)]}

\* rows of a data frame handed to StorageAdapter.update: the key cell, the
\* field map its other non-NaN cells make, and whether a cell holds a list
FrameRows(maps) ==
    {[unique_id |-> k, updates |-> u, list_cell |-> c] :
        k \in {NULL} \cup {Some(x) : x \in Keys}, u \in maps, c \in BOOLEAN}

AdapterCreateCall == \E b \in StorageBackend : AdapterCreate(b)

AdapterInsertCall ==
    \E data \in Lists(FlatRows, MaxFrame), allow_update \in BOOLEAN,
       hf_ok \in BOOLEAN, db_ok \in BOOLEAN :
        AdapterInsert(data, allow_update, hf_ok, db_ok)

AdapterUpdateCall ==
    \E df \in Lists(FrameRows(ContentMaps), MaxFrame), hf_ok \in BOOLEAN :
        \E row_ok \in [1..Len(df) -> BOOLEAN] : AdapterUpdate(df, hf_ok, row_ok)

NextAdapter == AdapterCreateCall \/ AdapterInsertCall \/ AdapterUpdateCall

SpecAdapter == Init /\ [][NextAdapter]_vars

(***************************************************************************)
(* SpecVector: every writer of the vector columns' table: insert, update,  *)
(* StorageAdapter.update and embedding runs.                               *)
(***************************************************************************)
UpdateVectorCall ==
    /\ call.op = "none"
    /\ \E k \in VectorKeys, u \in VectorMaps : PgUpdate(k, u, TRUE)

\* a frame with a timestamp column: a vector cell would be a list cell
AdapterUpdateVectorCall ==
    /\ call.op = "none"
    /\ \E k \in VectorKeys, hf_ok \in BOOLEAN :
          AdapterUpdate(<<[unique_id |-> Some(k),
                           updates |-> [embedding_generated_at |-> Some(now)],
                           list_cell |-> FALSE]>>, hf_ok, <<TRUE>>)

InsertEitherCall ==
    /\ call.op = "none"
    /\ \E k \in VectorKeys, allow_update \in BOOLEAN :
          PgInsert(<<NewsInsert(k, 1, Day2025)>>, allow_update, TRUE)

\* a run over every day, in batches of MaxBatch
EmbStartAllCall ==
    /\ call.op = "none"
    /\ EmbStart(1, NumDays, MaxBatch, 0, TRUE)

NextVector ==
    \/ AdapterCreateCall
    \/ InsertEitherCall
    \/ CallReturned
    \/ UpdateVectorCall
    \/ AdapterUpdateVectorCall
    \/ EmbStartAllCall
    \/ EmbApiStep
    \/ EmbStampStep
    \/ EmbCommitStep

SpecVector == Init /\ [][NextVector]_vars

(***************************************************************************)
(* SpecUpsert: insert with allow_update over rows that carry vectors and   *)
(* payloads that differ from the stored row in every column.               *)
(***************************************************************************)
\* the agencies a payload may refer to: id and key
PayloadAgencies == {<<1, "mec">>, <<2, "mds">>}

UpsertCall ==
    /\ call.op = "none"
    /\ \E k \in VectorKeys, t \in Titles, d \in Days, a \in PayloadAgencies,
          allow_update \in BOOLEAN :
           PgInsert(<<NewsInsertOf(k, t, d, a[1], a[2])>>, allow_update, TRUE)

NextUpsert == UpsertCall \/ UpdateVectorCall \/ CallReturned

SpecUpsert == Init /\ [][NextUpsert]_vars

(***************************************************************************)
(* SpecPool: PostgresManager operations whose statements may fail.         *)
(***************************************************************************)
\* the step of a try block that raises
WriteFailures == {"none", "cursor", "execute", "commit"}
ReadFailures == {"none", "cursor", "execute"}

PoolInsertCall ==
    /\ call.op = "none"
    /\ \E recs \in Lists(Payloads({Day2025}), 1), allow_update \in BOOLEAN,
          fail \in WriteFailures :
           PgInsertAt(recs, allow_update, fail)

PoolUpdateCall ==
    /\ call.op = "none"
    /\ \E k \in Keys, u \in TitleMaps \cup {<<>>}, fail \in WriteFailures :
           PgUpdateAt(k, u, fail)

PoolReadCall ==
    /\ call.op = "none"
    /\ \E op \in {"get", "count"}, fail \in ReadFailures : PgRead(op, fail)

LoadCacheCall ==
    /\ call.op = "none"
    /\ \E fail \in ReadFailures : LoadCache(fail)

NextPool ==
    \/ PoolInsertCall
    \/ PoolUpdateCall
    \/ PoolReadCall
    \/ LoadCacheCall
    \/ CallReturned

SpecPool == Init /\ [][NextPool]_vars

(***************************************************************************)
(* SpecIter: iter_news_for_typesense over a table that inserts fill        *)
(* between iterations.                                                     *)
(***************************************************************************)
IterInsertCall ==
    /\ call.op = "none"
    /\ iter.pc \in {"idle", "done"}
    /\ \E k \in Keys, d \in Days : PgInsert(<<NewsInsert(k, 1, d)>>, FALSE, TRUE)

IterStartCall ==
    /\ call.op = "none"
    /\ \E w \in Windows, bs \in BatchSizes : IterStart(w[1], w[2], bs)

NextIter == IterInsertCall \/ CallReturned \/ IterStartCall \/ IterPage

SpecIter == Init /\ [][NextIter]_vars

(***************************************************************************)
(* SpecPrepare: _prepare_typesense_document over the representations of a  *)
(* stored vector.                                                          *)
(***************************************************************************)
Vectors == UNION {[1..n -> Float32s] : n \in 1..MaxDim}

\* the three representations the method names
Known(v) ==
    {Repr("str", v, TRUE), Repr("list", v, TRUE), Repr("bytes", Encode(v), TRUE)}

\* other representations: a text cut before its end, bytes cut before
\* their end, a tuple, a numpy array, None
Unknown(v) ==
    {Repr("str", v, FALSE),
     Repr("bytes", SubSeq(Encode(v), 1, Len(Encode(v)) - 1), TRUE),
     Repr("tuple", v, TRUE), Repr("ndarray", v, TRUE), None}

PrepareKnownCall == \E v \in Vectors : \E e \in Known(v) : PrepareTypesenseDocument(v, e)

PrepareUnknownCall == \E v \in Vectors : \E e \in Unknown(v) : PrepareTypesenseDocument(v, e)

NextPrepare == PrepareKnownCall \/ PrepareUnknownCall

SpecPrepare == Init /\ [][NextPrepare]_vars

(***************************************************************************)
(* SpecRead: the read side of a StorageAdapter over a table that inserts   *)
(* fill.                                                                   *)
(***************************************************************************)
\* a read backend given or not
ReadChoices == {NULL} \cup {Some(b) : b \in StorageBackend}

AdapterInitCall ==
    \E b \in StorageBackend, read_from \in ReadChoices, read_str_env \in ReadChoices :
        AdapterInit(b, read_from, read_str_env, FALSE)

ReadInsertCall ==
    /\ call.op = "none"
    /\ \E k \in VectorKeys, d \in Days : PgInsert(<<NewsInsert(k, 1, d)>>, FALSE, TRUE)

NextRead == AdapterInitCall \/ AdapterGet \/ AdapterGetCount \/ ReadInsertCall \/ CallReturned

SpecRead == Init /\ [][NextRead]_vars

(***************************************************************************)
(* SpecConvert: _convert_to_news_insert over legacy flat rows.             *)
(***************************************************************************)
\* the published_at cells and the theme codes of a legacy row
DateCells == {NULL, DateTime(Day2025)} \cup {DateString(Day2025, iso) : iso \in BOOLEAN}
ThemeCodes == {NULL, Some("01"), Some("99")}

LegacyRows ==
    {[unique_id |-> k, agency |-> a, title |-> 1, published_at |-> d, theme |-> c] :
        k \in VectorKeys, a \in {"mec", "zzz"}, d \in DateCells, c \in ThemeCodes}

ConvertCall == \E data \in Lists(LegacyRows, MaxFrame) : Convert(data, "none")

NextConvert == ConvertCall

SpecConvert == Init /\ [][NextConvert]_vars

(***************************************************************************)
(* SpecJob: sync_to_typesense over a table that inserts fill between runs. *)
(***************************************************************************)
JobKeys == 1..NumJobKeys
JobLimits == 0..MaxJobLimit

JobInsertCall ==
    /\ call.op = "none"
    /\ job.pc \in {"idle", "returned"}
    /\ \E k \in JobKeys : PgInsert(<<NewsInsert(k, 1, 1)>>, FALSE, TRUE)

JobStartCall ==
    /\ call.op = "none"
    /\ \E bs \in BatchSizes, limit \in JobLimits : JobStart(1, 1, bs, limit)

NextJob == JobInsertCall \/ CallReturned \/ JobStartCall \/ JobPage

SpecJob == Init /\ [][NextJob]_vars

(***************************************************************************)
(* SpecBatches: process_in_batches over lists of up to MaxItems items and  *)
(* a process_fn that returns or raises.                                    *)
(***************************************************************************)
PibStartCall ==
    \E n \in 0..MaxItems, bs \in BatchSizes, on_error \in {"continue", "stop"} :
        PibStart(n, bs, on_error)

PibBatchStep == \E fn_ok \in BOOLEAN : PibBatch(fn_ok)

NextBatches == PibStartCall \/ PibBatchStep

SpecBatches == Init /\ [][NextBatches]_vars

(***************************************************************************)
(* SpecRace: embedding runs and incremental sync runs that interleave; the *)
(* caller records the watermark after every sync, and every import         *)
(* succeeds.                                                               *)
(***************************************************************************)
RaceInsertCall ==
    /\ call.op = "none"
    /\ emb.pc = "idle"
    /\ \E k \in VectorKeys : PgInsert(<<NewsInsert(k, 1, Day2025)>>, FALSE, TRUE)

RaceEmbStartCall == call.op = "none" /\ EmbStart(1, NumDays, MaxBatch, 0, TRUE)

RaceSyncStartCall ==
    /\ call.op = "none"
    /\ sync_log.exists
    /\ SyncStart(1, NumDays, FALSE, MaxBatch, 0, "ok", NULL)

RaceSyncFetchStep == SyncFetch(TRUE)

RaceSyncBatchStep == SyncBatch([j \in 1..Len(SyncBatchOf(sync)) |-> TRUE], FALSE)

\* the caller records every completed sync before it takes its result
RaceSyncReturned == sync.logged /\ SyncReturned

NextRace ==
    \/ RaceInsertCall
    \/ CallReturned
    \/ RaceEmbStartCall
    \/ EmbOkStep
    \/ EmbStampStep
    \/ EmbCommitStep
    \/ EmbReturned
    \/ Tick
    \/ CreateSyncLog
    \/ RaceSyncStartCall
    \/ RaceSyncFetchStep
    \/ RaceSyncBatchStep
    \/ RecordSync
    \/ RaceSyncReturned

SpecRace == Init /\ [][NextRace]_vars

(***************************************************************************)
(* SpecRerun: generate_embeddings run again and again over one window,     *)
(* rows being inserted between the runs, never during one.                 *)
(***************************************************************************)
\* a row is inserted while no run is under way
RerunInsertCall ==
    /\ call.op = "none"
    /\ emb.pc = "idle"
    /\ \E n \in Payloads(Days) : PgInsert(<<n>>, FALSE, TRUE)

\* a run over every day; a run that has returned is followed by the next
\* run at once, or after EmbReturned and inserts
RerunStartCall ==
    /\ call.op = "none"
    /\ \E bs \in BatchSizes, lim \in Limits, db_ok \in BOOLEAN :
           EmbStart(1, NumDays, bs, lim, db_ok)

RerunReturned == call.op = "none" /\ EmbReturned

NextRerun ==
    \/ RerunInsertCall
    \/ CallReturned
    \/ RerunStartCall
    \/ EmbApiStep
    \/ EmbStampStep
    \/ EmbCommitStep
    \/ RerunReturned

SpecRerun == Init /\ [][NextRerun]_vars

(***************************************************************************)
(* SpecAnswers: full sync_embeddings runs against an index whose import    *)
(* may answer with any list of results.                                    *)
(***************************************************************************)
\* the result lists import_ may return for n documents: one result per
\* document, fewer, or one more
Answers(n) == UNION {[1..m -> BOOLEAN] : m \in 0..(n + 1)}

AnswersSyncStartCall ==
    /\ Quiet
    /\ \E bs \in BatchSizes : SyncStart(1, NumDays, TRUE, bs, 0, "ok", NULL)

AnswersSyncFetchStep == SyncFetch(TRUE)

AnswersSyncBatchStep ==
    \E ok \in Answers(Len(SyncBatchOf(sync))), raised \in BOOLEAN :
        SyncBatch(ok, raised)

NextAnswers ==
    \/ QuietInsertCall
    \/ CallReturned
    \/ QuietEmbStartCall
    \/ EmbOkStep
    \/ EmbStampStep
    \/ EmbCommitStep
    \/ EmbReturned
    \/ AnswersSyncStartCall
    \/ AnswersSyncFetchStep
    \/ AnswersSyncBatchStep
    \/ SyncReturned

SpecAnswers == Init /\ [][NextAnswers]_vars

(***************************************************************************)
(* SpecPaging: iter_news_for_typesense over a table that is filled before  *)
(* the first iteration and from which date ranges are deleted at any       *)
(* time, between two page queries too.                                     *)
(***************************************************************************)
PagingInsertCall ==
    /\ call.op = "none"
    /\ iter.pc = "idle"
    /\ \E k \in Keys, d \in Days : PgInsert(<<NewsInsert(k, 1, d)>>, FALSE, TRUE)

PagingDeleteCall ==
    /\ call.op = "none"
    /\ \E w \in Windows : DeleteNews(w[1], w[2])

NextPaging ==
    \/ PagingInsertCall
    \/ CallReturned
    \/ PagingDeleteCall
    \/ IterStartCall
    \/ IterPage

SpecPaging == Init /\ [][NextPaging]_vars

(***************************************************************************)
(* SpecRefs: a PostgresManager, an adapter that is given it or makes its   *)
(* own, and the operations that resolve keys through the reference cache.  *)
(***************************************************************************)
RefsAdapterInitCall ==
    /\ call.op = "none"
    /\ \E postgres_manager \in BOOLEAN : AdapterInit(POSTGRES, NULL, NULL, postgres_manager)

RefsGetAgencyCall ==
    /\ call.op = "none"
    /\ \E key \in {"mec", "zzz"}, fail \in ReadFailures : GetAgencyByKey(key, fail)

RefsGetThemeCall ==
    /\ call.op = "none"
    /\ \E code \in {"01", "99"}, fail \in ReadFailures : GetThemeByCode(code, fail)

RefsConvertCall ==
    /\ call.op = "none"
    /\ adapter.backend # "unset"
    /\ \E data \in Lists({d \in LegacyRows : d.unique_id = 1 /\ d.theme = NULL}, 1),
          fail \in ReadFailures :
           Convert(data, fail)

NextRefs ==
    \/ RefsAdapterInitCall
    \/ LoadCacheCall
    \/ CallReturned
    \/ RefsGetAgencyCall
    \/ RefsGetThemeCall
    \/ RefsConvertCall

SpecRefs == Init /\ [][NextRefs]_vars

(***************************************************************************)
(* Claims on PostgresManager.insert.                                       *)
(***************************************************************************)
ListKeys(recs) == {recs[i].unique_id : i \in 1..Len(recs)}
FirstOcc(recs, k) ==
    recs[CHOOSE i \in 1..Len(recs) :
            /\ recs[i].unique_id = k
            /\ \A j \in 1..(i - 1) : recs[j].unique_id # k]
RowsOf(store, k) == {r \in store : r.unique_id = k}

\* C9: insert de-duplicates its input by unique_id keeping the first
\* occurrence: after a successful insert every key of the list has exactly
\* one row, a key that was new has the first occurrence's values (and NULL
\* vector columns), one row is added per new key however often the key
\* occurs in the list, and the table never holds two rows with one key.
C9_InsertDedupKeepsFirst ==
    /\ \A r1 \in news, r2 \in news : r1.unique_id = r2.unique_id => r1 = r2
    /\ (call.op = "insert" /\ ~call.raised) =>
          /\ \A k \in ListKeys(call.news) :
                /\ Cardinality(RowsOf(news, k)) = 1
                /\ ~Has(call.pre, k) =>
                      Get(news, k) = NewRow(FirstOcc(call.news, k))
          /\ Cardinality(news) - Cardinality(call.pre)
                = Cardinality(ListKeys(call.news) \ KeysOf(call.pre))

\* C9 witness: a list carrying a new key twice, with different values, has
\* been inserted
C9_Witness ==
    /\ call.op = "insert"
    /\ ~call.raised
    /\ \E i \in 1..Len(call.news), j \in 1..Len(call.news) :
          /\ i < j
          /\ call.news[i].unique_id = call.news[j].unique_id
          /\ call.news[i].title # call.news[j].title
          /\ ~Has(call.pre, call.news[i].unique_id)
          /\ Get(news, call.news[i].unique_id).title = call.news[i].title

\* C10: with allow_update false insert skips every record whose key exists:
\* the rows that were there are unchanged, the returned count is the number
\* of rows inserted, and inserting the same list again returns 0 and leaves
\* the table unchanged.
C10_InsertOrIgnore ==
    (call.op = "insert" /\ ~call.raised /\ ~call.allow_update) =>
        /\ call.pre \subseteq news
        /\ call.ret = Cardinality(news) - Cardinality(call.pre)
        /\ call.repeat => (call.ret = 0 /\ news = call.pre)

(***************************************************************************)
(* Claims on the vector columns.                                           *)
(***************************************************************************)
\* C2: in every reachable state of the table, each row has
\* embedding_generated_at non-null if and only if its content_embedding is
\* present.
C2_TimestampIffVector ==
    \A r \in news : (r.embedding_generated_at # NULL) <=> (r.content_embedding # NULL)

(***************************************************************************)
(* Claims on the StorageAdapter.                                           *)
(***************************************************************************)
AdapterCalled == adapter.op \in {"insert", "update"}
\* a backend has failed when its call raised or a row it was to write was
\* not written
HfFailed == adapter.hf_failed
PgFailed == adapter.pg_failed \/ adapter.row_failed

\* C7: in dual-write mode insert and update attempt both backends whatever
\* the first one did, return normally if at least one backend succeeded and
\* raise only if both failed.
C7_DualWriteIsolatesFailures ==
    (AdapterCalled /\ adapter.backend = DUAL_WRITE) =>
        /\ adapter.hf_attempted
        /\ adapter.pg_attempted
        /\ (~HfFailed \/ ~PgFailed) => ~adapter.raised
        /\ adapter.raised => (HfFailed /\ PgFailed)

\* C7 witness: a dual-write call whose legacy write failed has returned
\* normally after the relational write
C7_Witness ==
    /\ AdapterCalled
    /\ adapter.backend = DUAL_WRITE
    /\ adapter.hf_failed
    /\ adapter.pg_attempted
    /\ ~PgFailed
    /\ ~adapter.raised
    /\ adapter.ret > 0

\* C8: in single-backend mode any failure of the active backend during
\* insert or update, a failure while writing one row included, reaches the
\* caller as an exception.
C8_SingleBackendPropagates ==
    (AdapterCalled /\ adapter.backend \in {HUGGINGFACE, POSTGRES}) =>
        ((HfFailed \/ PgFailed) => adapter.raised)

(***************************************************************************)
(* Claims on TypesenseSyncManager.sync_embeddings.                         *)
(***************************************************************************)
\* the rows a run has fetched, and the run being past its fetch with
\* sync_log as the fetch found it
Processed == {sync.records[j] : j \in DOMAIN sync.records}
Fetched == sync.pc \in {"batch", "done"} /\ ~sync.logged
InRunWindow(r) == r.published_at >= sync.start_date /\ r.published_at <= sync.end_date
HasVector(r) == r.content_embedding # NULL
NoWatermark == ~sync_log.exists \/ sync_log.rows = {}

\* the rows of the window that carry a vector and, with a watermark t0,
\* were stamped after it
Candidates(t0) ==
    {r \in sync.store :
        /\ InRunWindow(r)
        /\ HasVector(r)
        /\ t0 # NULL => (r.embedding_generated_at # NULL /\ Val(r.embedding_generated_at) > Val(t0))}

\* C3 as stated: an incremental run with a stored watermark t0 processes
\* exactly the in-window rows that have a vector and a timestamp strictly
\* after t0; without a watermark it filters on no timestamp and processes
\* rows that a full sync with its arguments processes.
C3_ExactlyAfterWatermark ==
    (Fetched /\ ~sync.full_sync) =>
        /\ NoWatermark <=> sync.last_sync_timestamp = NULL
        /\ sync.last_sync_timestamp # NULL =>
               Processed = Candidates(sync.last_sync_timestamp)
        /\ sync.last_sync_timestamp = NULL =>
               \E q \in OrderedDesc(WithNewEmbeddings(sync.store, sync.start_date,
                                                      sync.end_date, NULL)) :
                   sync.records = Limited(q, sync.max_records)

\* C3, amended: the rows processed are those of the window published on or
\* after 2025-01-01 that have a vector and (with a watermark t0) a timestamp
\* strictly after t0: all of them when max_records is not given, otherwise
\* max_records of them, none published later being left out for one
\* published earlier.
C3_AfterWatermarkSince2025 ==
    (Fetched /\ ~sync.full_sync) =>
        LET elig == {r \in Candidates(sync.last_sync_timestamp) : r.published_at >= Day2025}
            n == Cardinality(elig)
        IN
        /\ NoWatermark <=> sync.last_sync_timestamp = NULL
        /\ Processed \subseteq elig
        /\ Cardinality(Processed) = Len(sync.records)
        /\ Len(sync.records) = IF sync.max_records = 0 THEN n ELSE Min(sync.max_records, n)
        /\ \A r \in Processed, x \in elig \ Processed : r.published_at >= x.published_at

\* C3 witness: an incremental run under a watermark has processed a row
\* stamped after the watermark and left out one stamped at or before it
C3_Witness ==
    /\ Fetched
    /\ ~sync.full_sync
    /\ sync.last_sync_timestamp # NULL
    /\ Processed # {}
    /\ \E x \in Candidates(NULL) \ Processed :
          /\ x.published_at >= Day2025
          /\ x.embedding_generated_at # NULL
          /\ Val(x.embedding_generated_at) <= Val(sync.last_sync_timestamp)

\* C4: an incremental run processes no record that a watermark stored
\* before it covers: every record it processes was stamped after every
\* completed sync recorded in sync_log.
C4_CoveredNotReprocessed ==
    (Fetched /\ ~sync.full_sync) =>
        \A r \in Processed, e \in sync_log.rows :
            r.embedding_generated_at # NULL /\ Val(r.embedding_generated_at) > e.completed_at

\* C4 witness: after two recorded syncs, an incremental run has processed
\* a record stamped since and passed over one the watermarks cover
C4_Witness ==
    /\ Fetched
    /\ ~sync.full_sync
    /\ Cardinality(sync_log.rows) >= 2
    /\ Processed # {}
    /\ \E x \in sync.store \ Processed, e \in sync_log.rows :
          /\ HasVector(x)
          /\ x.embedding_generated_at # NULL
          /\ Val(x.embedding_generated_at) <= e.completed_at

\* the run was stopped by its collection check
AbortedAtCheck == sync.pc # "idle" /\ sync.check \in {"not_found", "conn_error"}

SecondFullRunDone ==
    /\ sync.pc = "done"
    /\ sync.full_sync
    /\ sync.first # NULL
    /\ Val(sync.first).store = sync.store
    /\ news = sync.store

Conflicting == {r \in call.pre : r.unique_id \in ListKeys(call.news)}

\* C11: with allow_update true, insert on a record whose key exists
\* overwrites the content columns with the new values and changes neither
\* the key, nor the agency reference (agency_id and the cached agency_key),
\* nor the publish time, nor the vector columns of the row.
C11_UpsertKeepsIdentity ==
    (call.op = "insert" /\ ~call.raised /\ call.allow_update) =>
        \A r \in Conflicting :
            LET after == Get(news, r.unique_id)
                n == FirstOcc(call.news, r.unique_id)
            IN
            /\ after.title = n.title
            /\ after.agency_id = r.agency_id
            /\ after.agency_key = r.agency_key
            /\ after.published_at = r.published_at
            /\ after.content_embedding = r.content_embedding
            /\ after.embedding_generated_at = r.embedding_generated_at

(***************************************************************************)
(* Claims on the connection pool.                                          *)
(***************************************************************************)
\* C12: after any sequence of load_cache, insert, update, get and count
\* calls, failing ones included, no pooled connection remains checked out.
C12_ConnectionsReturned == pg.checked_out = 0

(***************************************************************************)
(* Claims on iter_news_for_typesense.                                      *)
(***************************************************************************)
\* the unique_id values yielded, batch after batch
RECURSIVE Flatten(_)
Flatten(qs) == IF qs = <<>> THEN <<>> ELSE Head(qs) \o Flatten(Tail(qs))
Yielded == Flatten(iter.batches)

\* C13: an iteration over an unchanged table yields batches of at most
\* batch_size rows that together hold every row of the window exactly
\* once, so that the rows yielded are as many as count_news_for_typesense
\* counts.
C13_IterYieldsEachRowOnce ==
    (iter.pc = "done" /\ news = iter.store) =>
        LET want == NewsForTypesense(news, iter.start_date, iter.end_date) IN
        /\ \A b \in DOMAIN iter.batches : Len(iter.batches[b]) <= iter.batch_size
        /\ Len(Yielded) = Cardinality(want)
        /\ {Yielded[j] : j \in DOMAIN Yielded} = {r.unique_id : r \in want}

(***************************************************************************)
(* Claims on the batches of generate_embeddings.                           *)
(***************************************************************************)
\* C14: a response of the embeddings API is accepted, and its vectors are
\* written, only if its array has as many rows as texts were sent (and
\* every row has EMBEDDING_DIM entries); a batch whose response differs is
\* failed and never reaches the UPDATE.
C14_AcceptedOnlyIfShapeMatches ==
    emb.pc = "commit" => emb.rows = Len(EmbBatchOf(emb))

\* the batch generate_embeddings is at fails before _update_embeddings_batch
FailsAtApi == emb.pc = "batch" /\ emb' # emb /\ emb'.pc # "persist"

\* C15: a batch that fails at the API call or at the validation of the
\* response is counted failed as a whole and none of its vectors is
\* written; the loop goes on with the next batch in order, and the run
\* ends only after the last batch.
C15_ApiFailureSkipsBatchOnly ==
    [][FailsAtApi =>
          /\ news' = news
          /\ emb'.failed = emb.failed + Len(EmbBatchOf(emb))
          /\ emb'.successful = emb.successful
          /\ emb'.processed = emb.processed + Len(EmbBatchOf(emb))
          /\ emb'.records = emb.records
          /\ emb'.i = emb.i + emb.batch_size
          /\ emb'.pc = IF emb'.i < Len(emb.records) THEN "batch" ELSE "done"]_vars

\* C15 witness: a batch failed at the API or at validation, and the run is
\* at a later batch
C15_Witness ==
    /\ emb.pc = "batch"
    /\ emb.i > 0
    /\ emb.error \in {"api", "validation"}
    /\ emb.failed > 0

\* the batch generate_embeddings is at fails in _update_embeddings_batch
FailsAtUpdate == emb.pc \in {"persist", "commit"} /\ emb'.failed # emb.failed

\* the row a candidate of the run was fetched from
RowOf(rec) == Get(news, rec.id)

\* C16: an exception while a batch is written leaves no write of that batch
\* in the table and counts the whole batch failed; the vectors written by
\* earlier batches stay, and generate_embeddings goes on to the next batch
\* instead of raising.
C16_UpdateFailureRollsBack ==
    [][FailsAtUpdate =>
          /\ news' = news
          /\ emb'.failed = emb.failed + Len(EmbBatchOf(emb))
          /\ emb'.successful = emb.successful
          /\ emb'.processed = emb.processed + Len(EmbBatchOf(emb))
          /\ emb'.i = emb.i + emb.batch_size
          /\ emb'.pc = IF emb'.i < Len(emb.records) THEN "batch" ELSE "done"]_vars

\* C16 witness: the first batch was written, then a batch failed in
\* _update_embeddings_batch and its last record has no vector
C16_Witness ==
    /\ emb.pc \in {"batch", "done"}
    /\ emb.error = "update"
    /\ emb.successful > 0
    /\ emb.processed >= 2
    /\ emb.processed = emb.successful + emb.failed
    /\ Has(news, emb.records[1].id)
    /\ RowOf(emb.records[1]).content_embedding # NULL
    /\ Has(news, emb.records[emb.processed].id)
    /\ RowOf(emb.records[emb.processed]).content_embedding = NULL

(***************************************************************************)
(* Claims on the batches of sync_embeddings.                               *)
(***************************************************************************)
\* the counters of a run after some of its batches
SyncCountersAddUp ==
    sync.pc \in {"batch", "done"} =>
        /\ sync.processed = sync.successful + sync.failed
        /\ sync.processed = Min(sync.i, Len(sync.records))
        /\ sync.imports * sync.batch_size = sync.i
        /\ sync.pc = "done" => sync.processed = Len(sync.records)

\* one turn of the loop of sync_embeddings
SyncBatchTurn ==
    sync.pc = "batch" =>
        /\ sync'.imports = sync.imports + 1
        /\ sync'.raised =>
              /\ sync'.failed = sync.failed + Len(SyncBatchOf(sync))
              /\ sync'.successful = sync.successful
        /\ sync'.successful >= sync.successful
        /\ sync'.failed >= sync.failed
        /\ sync'.pc = IF sync.i + sync.batch_size < Len(sync.records) THEN "batch" ELSE "done"

\* C17: every batch of a run is sent in one import call; the documents the
\* server reports failed count as failed, a batch whose import raises counts
\* failed as a whole, and in both cases the next batch is still sent; at
\* the end processed = successful + failed = the number of rows fetched.
C17_SyncBatchesCounted == []SyncCountersAddUp /\ [][SyncBatchTurn]_sync

\* C17 witness: the import of a batch raised, its rows are counted failed
\* and the run is at the next batch
C17_Witness ==
    /\ sync.pc = "batch"
    /\ sync.raised
    /\ sync.imports >= 1
    /\ sync.failed = sync.processed
    /\ sync.processed < Len(sync.records)

(***************************************************************************)
(* Claims on _prepare_typesense_document.                                  *)
(***************************************************************************)
\* C18: a vector given as JSON text, as a list or in the binary form
\* (2-byte big-endian dimension, then 4-byte big-endian floats) comes out
\* as the same list of its values, in order; any other representation
\* gives a document without content_embedding, and the call never raises.
C18_VectorNormalised ==
    prep.pc # "idle" =>
        /\ ~prep.raised
        /\ prep.content_embedding =
              IF prep.input \in Known(prep.vector) THEN Some(prep.vector) ELSE NULL

(***************************************************************************)
(* Claims on the read side of the StorageAdapter.                          *)
(***************************************************************************)
\* C19: the read backend of an adapter is the legacy or the relational
\* backend, never dual-write: the read backend given (the argument, else
\* STORAGE_READ_FROM), else the legacy backend in dual-write, else the write
\* backend; get and get_count both read from it.
C19_ReadBackendConcrete ==
    reader.read_from # "unset" =>
        /\ reader.read_from \in {HUGGINGFACE, POSTGRES}
        /\ reader.read_from =
              IF reader.arg # NULL THEN Val(reader.arg)
              ELSE IF reader.env # NULL THEN Val(reader.env)
              ELSE IF adapter.backend = DUAL_WRITE THEN HUGGINGFACE
              ELSE adapter.backend
        /\ reader.op # "none" => reader.source = reader.read_from /\ ~reader.raised

(***************************************************************************)
(* Claims on _convert_to_news_insert.                                      *)
(***************************************************************************)
\* the record a legacy row is converted to
RecordOf(d) ==
    [unique_id |-> d.unique_id, title |-> d.title,
     published_at |-> d.published_at[1], agency_key |-> d.agency,
     theme_l1_id |-> IF d.theme # NULL /\ Val(d.theme) \in KnownThemes
                     THEN Some(ThemeId(Val(d.theme))) ELSE NULL]

\* the records of the rows of data that are in kept, in the order of data
RECURSIVE RecordsOf(_, _)
RecordsOf(data, kept) ==
    IF data = <<>> THEN <<>>
    ELSE (IF Head(data) \in kept THEN <<RecordOf(Head(data))>> ELSE <<>>)
            \o RecordsOf(Tail(data), kept)

WithAgencyAndDate ==
    {d \in LegacyRows : d.agency \in KnownAgencies /\ d.published_at # NULL}
WithAgencyAndReadableDate ==
    {d \in WithAgencyAndDate : ~FromIsoRaises(d.published_at)}

\* C20: the conversion of a legacy payload gives, in the order of the
\* input, one record for each row whose agency key is known and whose
\* published_at is present; a row with an unknown agency key is skipped, an
\* unknown theme code gives a null theme id.
C20_ConvertKeepsKnownAgencies ==
    conv.pc = "returned" => conv.news_list = RecordsOf(conv.data, WithAgencyAndDate)

\* C20, amended: one record, in the order of the input, for each row whose
\* agency key is known, whose published_at is present and whose conversion
\* raises no exception (a published_at text that is not ISO raises); an
\* unknown theme code gives a null theme id.
C20_ConvertKeepsConvertibleRows ==
    conv.pc = "returned" => conv.news_list = RecordsOf(conv.data, WithAgencyAndReadableDate)

\* C20 witness: a payload of two rows, the first with an unknown agency
\* key, the second with a known agency and an unknown theme code, of which
\* the second alone is converted, with a null theme id
C20_Witness ==
    /\ conv.pc = "returned"
    /\ Len(conv.data) = 2
    /\ conv.data[1].agency \notin KnownAgencies
    /\ conv.data[2].theme = Some("99")
    /\ Len(conv.news_list) = 1
    /\ conv.news_list[1].unique_id = conv.data[2].unique_id
    /\ conv.news_list[1].theme_l1_id = NULL

(***************************************************************************)
(* Claims on sync_to_typesense.                                            *)
(***************************************************************************)
\* C21: a run of sync_to_typesense that was given a limit reads from the
\* table, and sends to the index, at most limit records, on the eager path
\* as on the streaming path and for every pg_batch_size.
C21_LimitBoundsFetched ==
    (job.pc = "returned" /\ job.limit # 0) => job.total_fetched <= job.limit

(***************************************************************************)
(* Claims on process_in_batches.                                           *)
(***************************************************************************)
\* C22: the statistics of process_in_batches satisfy batches_total =
\* batches_success + batches_failed, and processed + errors is the number
\* of items of the batches process_fn was called on; with on_error =
\* "continue" every batch is attempted (processed + errors = total at the
\* end), with on_error = "stop" process_fn is not called again after the
\* first batch that failed.
C22_BatchStatsAddUp ==
    pib.pc \in {"loop", "returned"} =>
        /\ pib.batches_total = pib.batches_success + pib.batches_failed
        /\ pib.batches_total = pib.calls
        /\ pib.processed + pib.errors = pib.called_items
        /\ (pib.pc = "returned" /\ pib.on_error = "continue") =>
              pib.processed + pib.errors = pib.total
        /\ pib.on_error = "stop" => pib.after_failure = 0

\* C22 witness: a run with on_error = "stop" returned after its second
\* batch failed, with batches left that were never attempted
C22_Witness ==
    /\ pib.pc = "returned"
    /\ pib.on_error = "stop"
    /\ pib.batches_success = 1
    /\ pib.batches_failed = 1
    /\ pib.called_items < pib.total

(***************************************************************************)
(* Claims on embedding runs that interleave with sync runs.                *)
(***************************************************************************)
\* a sync run has fetched the row of key k: its document is in the index,
\* or the run under way holds the row
SeenBySync(k) ==
    \/ \E d \in index : d.unique_id = k
    \/ \E j \in DOMAIN sync.records : sync.records[j].unique_id = k

\* the row has a vector, no sync run has fetched it, and its
\* embedding_generated_at is earlier than the watermark: no incremental
\* sync will select it
SkippedForGood(r) ==
    /\ r.content_embedding # NULL
    /\ r.embedding_generated_at # NULL
    /\ ~SeenBySync(r.unique_id)
    /\ LastSyncTimestamp(sync_log) # NULL
    /\ Val(r.embedding_generated_at) < Val(LastSyncTimestamp(sync_log))

\* C23: with embedding runs and incremental sync runs interleaving, and a
\* watermark recorded after every completed sync, no row whose vector is
\* persisted is left behind the watermark of a sync that did not see it:
\* every such row is still selected by some incremental sync.
C23_NoRowBehindWatermark == \A r \in news : ~SkippedForGood(r)

(***************************************************************************)
(* Claims on documents that failed in a completed sync run.                *)
(***************************************************************************)
\* an incremental run without max_records has fetched its rows, after a run
\* with the same arguments that completed and was recorded in sync_log
IncrementalAfterRecorded ==
    /\ sync.pc \in {"batch", "done"}
    /\ sync.first # NULL
    /\ ~sync.full_sync
    /\ sync.max_records = 0
    /\ Val(sync.first).logged
    /\ Val(sync.first).store = sync.store

\* the rows the run before fetched whose document the index did not hold
\* when it completed: their upsert failed
FailedBefore ==
    LET first == Val(sync.first) IN
    {first.records[j] : j \in {j \in DOMAIN first.records :
        ~\E d \in first.index : d.unique_id = first.records[j].unique_id}}

\* C24: a document whose upsert failed in a sync run that completed, and
\* after which the watermark was advanced, is processed again by a later
\* incremental run, its embedding_generated_at being unchanged.
C24_FailedDocumentRetried ==
    IncrementalAfterRecorded =>
        \A r \in FailedBefore :
            \E j \in DOMAIN sync.records : sync.records[j].unique_id = r.unique_id

(***************************************************************************)
(* Claims on successive embedding runs over one window (SpecRerun: the     *)
(* window is every day, and no row is inserted while a run is under way).  *)
(***************************************************************************)
\* the candidates of a run over the window that would start now
CandidatesNow(store) == WithoutEmbeddings(store, 1, NumDays)
IsCandidate(store, id) == \E r \in CandidatesNow(store) : r.unique_id = id

\* a step that counts the batch at hand failed / successful
BatchFails == emb.pc \in {"batch", "persist", "commit"} /\ emb'.failed > emb.failed
BatchSucceeds == emb.pc = "commit" /\ emb'.successful > emb.successful

\* the fetch of the run at hand was not cut by max_records: every row that
\* is a candidate now is among its records
NotCut == \A r \in CandidatesNow(news) :
              \E j \in DOMAIN emb.records : emb.records[j].id = r.unique_id

\* the run at hand has returned failed == 0; no row was inserted since its
\* fetch
ReturnedNoFailure == emb.pc = "done" /\ emb.failed = 0

\* C25, as stated: after a run that returned failed == 0, and with no new
\* row inserted, the next run over the window finds no candidate.
C25_NoFailureLeavesNoCandidate ==
    ReturnedNoFailure => CandidatesNow(news) = {}

\* C25: over successive embedding runs on one window, the records of a
\* failed batch are still candidates, the records of a successful batch are
\* candidates no more and a row that has a vector keeps one, a run fetches
\* candidates only, and after a run that returned failed == 0 and whose
\* fetch was not cut by max_records, with no new row inserted, the next run
\* finds no candidate.
C25_RerunsConverge ==
    /\ [][BatchFails =>
            \A j \in DOMAIN EmbBatchOf(emb) :
                IsCandidate(news', EmbBatchOf(emb)[j].id)]_vars
    /\ [][BatchSucceeds =>
            \A j \in DOMAIN EmbBatchOf(emb) :
                ~IsCandidate(news', EmbBatchOf(emb)[j].id)]_vars
    /\ [][\A r \in news : HasVector(r) => ~IsCandidate(news', r.unique_id)]_vars
    /\ [][(emb'.records # emb.records) =>
            \A j \in DOMAIN emb'.records : IsCandidate(news, emb'.records[j].id)]_vars
    /\ []((ReturnedNoFailure /\ NotCut) => CandidatesNow(news) = {})

\* a run of two batches over two rows has returned failed == 0
C25_Witness ==
    /\ ReturnedNoFailure
    /\ emb.batch_size = 1
    /\ emb.successful = 2
    /\ NotCut
    /\ CandidatesNow(news) = {}

(***************************************************************************)
(* Claims on the counters of sync_embeddings under any answer of the       *)
(* index.                                                                  *)
(***************************************************************************)
\* C26: whatever list of results the index returns for a batch, of the
\* length of the batch or not, the counters of sync_embeddings satisfy
\* 0 <= successful <= processed and 0 <= failed <= processed.
C26_CountersWithinProcessed ==
    sync.pc \in {"batch", "done"} =>
        /\ 0 <= sync.successful /\ sync.successful <= sync.processed
        /\ 0 <= sync.failed /\ sync.failed <= sync.processed

(***************************************************************************)
(* Claims on iter_news_for_typesense over a table that changes while it    *)
(* pages (SpecPaging: once an iteration has started rows are deleted       *)
(* only, so a row of the table was there since the iteration began).       *)
(***************************************************************************)
\* the rows of the window that were there from the count to this state
PresentThroughout ==
    NewsForTypesense(iter.store, iter.start_date, iter.end_date) \cap news

\* no two rows the iteration counted have the same published_at: ORDER BY
\* published_at leaves the page queries no choice
NoTies ==
    \A r1, r2 \in NewsForTypesense(iter.store, iter.start_date, iter.end_date) :
        r1.published_at = r2.published_at => r1 = r2

TimesYielded(k) == Cardinality({j \in DOMAIN Yielded : Yielded[j] = k})

\* ceil(total_count / batch_size)
PagesOfCount == (iter.total_count + iter.batch_size - 1) \div iter.batch_size

\* the iteration ends after at most ceil(initial count / batch_size) page
\* queries
PageQueriesBounded == iter.queries <= PagesOfCount

\* C27: when rows are deleted from the window while iter_news_for_typesense
\* is paging, every row that is in the window during the whole iteration is
\* yielded exactly once, and the iteration makes at most
\* ceil(initial count / batch_size) page queries.
C27_PagingSurvivesChanges ==
    /\ PageQueriesBounded
    /\ (iter.pc = "done" /\ NoTies) =>
          \A r \in PresentThroughout : TimesYielded(r.unique_id) = 1

(***************************************************************************)
(* Claims on the two paths of sync_to_typesense.                           *)
(***************************************************************************)
\* the path taken is the single-shot fetch exactly when a limit is given
\* and limit <= pg_batch_size
PathChosen ==
    job.pc \in {"stream", "returned"} =>
        /\ job.path \in {"eager", "stream"}
        /\ job.path = "eager" <=> (job.limit # 0 /\ job.limit <= job.pg_batch_size)

\* on the streaming path index_documents has run once for every page the
\* generator has yielded
OncePerPage ==
    (job.pc \in {"stream", "returned"} /\ job.path = "stream") =>
        job.index_calls = Len(iter.batches)

Resolved == refs.op \in {"get_agency_by_key", "get_theme_by_code", "convert"}

\* load_cache is called on a loaded cache
LoadCacheAgain == pg.cache_loaded /\ call.op = "none" /\ call'.op = "load_cache"

\* load_cache on a loaded cache runs no query and leaves the cache (and the
\* pool) as it was
LoadCacheOnce ==
    [][LoadCacheAgain => (pg' = pg /\ ~refs'.selected /\ ~call'.raised)]_vars

\* C29: whenever get_agency_by_key, get_theme_by_code or the adapter's
\* conversion (also of an adapter that was given its PostgresManager) looks a
\* key up, the reference cache has been loaded; and load_cache on a loaded
\* cache runs no query and leaves the cache unchanged.
C29_CacheLoadedWhenResolving ==
    /\ [](Resolved => refs.loaded)
    /\ LoadCacheOnce

(***************************************************************************)
(* Claims on the agency columns of a news row.                             *)
(***************************************************************************)
\* C30: after any sequence of inserts and upserts, the agency_key (and the
\* agency_name, which the payload takes from the same agency) stored on a
\* row is that of the agency the row's agency_id refers to.
C30_AgencyColumnsAgree ==
    \A r \in news : <<r.agency_id, r.agency_key>> \in PayloadAgencies

====
